---- MODULE Spec2Model ----
(***************************************************************************)
(* A model of vidata's file discovery (file_manager/file_manager.py), of   *)
(* the codec registry and the numpy adapters attached to it                *)
(* (io/numpy_io.py), of the loaders and writers over them, and of the      *)
(* split resolution of the configuration check (cli/verify_config.py).     *)
(*                                                                         *)
(* Strings are sequences of one-character strings, so that substring       *)
(* tests, globbing, rsplit and the natural sort key are computed and not   *)
(* assumed.  A path is the sequence of its parts, as pathlib's             *)
(* PurePath.parts: an absolute path starts with the part "/".              *)
(***************************************************************************)
EXTENDS Integers, Sequences, FiniteSets, TLC

VARIABLES
    fs,         \* the files on disk: a set of absolute paths
    call,       \* the constructor call made: None, or its arguments and (history)
                \* what its collect_files located and left in self.files
    fm,         \* the object the call built: None, or the FileManager's fields
    raised,     \* the exception the call raised, or "none"
    loaders,    \* registry: the loader bindings, in registration order
    writers,    \* registry: the writer bindings, in registration order
    imported,   \* the import of vidata.io.numpy_io: "no", "yes" or "failed"
    nreg,       \* number of register calls made by other adapters
    regLog,     \* history: every register call made, with its outcome
    resolved,   \* the last resolve call and its outcome, or None
    store,      \* the files the adapters wrote: path -> content and (history)
                \* the save call that wrote it
    io,         \* the last save or load call and its outcome, or None
    nio,        \* number of save and load calls made
    cfg,        \* the dataset configuration object (an OmegaConf tree)
    cfg0,       \* history: the configuration as it was loaded
    out,        \* the last call made on the configuration and its outcome, or None
    cm          \* the config manager built of the configuration, or None

fmVars == <<fs, call, fm, raised>>
regVars == <<loaders, writers, imported, nreg, regLog, resolved>>
ioVars == <<store, io, nio>>
cfgVars == <<cfg, cfg0, out, cm>>
vars == <<fmVars, regVars, ioVars, cfgVars>>

(***************************************************************************)
(* Bounds of the model.                                                    *)
(***************************************************************************)
MaxFiles == 3
MaxRegs == 2
MaxOps == 3

(***************************************************************************)
(* Optional values: None is <<>>, a value v is <<v>>.                      *)
(***************************************************************************)
None == <<>>
Some(v) == <<v>>

Range(s) == {s[i] : i \in 1..Len(s)}

(***************************************************************************)
(* Characters and strings.                                                 *)
(***************************************************************************)
Digits == {"0", "1", "2", "3", "4", "5", "6", "7", "8", "9"}

\* The code point of a character (Python compares str by code point).
Ord(c) ==
    CASE c = "*" -> 42 [] c = "." -> 46 [] c = "/" -> 47
      [] c = "0" -> 48 [] c = "1" -> 49 [] c = "2" -> 50 [] c = "3" -> 51
      [] c = "4" -> 52 [] c = "5" -> 53 [] c = "6" -> 54 [] c = "7" -> 55
      [] c = "8" -> 56 [] c = "9" -> 57 [] c = "_" -> 95
      [] c = "a" -> 97 [] c = "b" -> 98 [] c = "c" -> 99 [] c = "e" -> 101
      [] c = "f" -> 102 [] c = "r" -> 114 [] c = "s" -> 115 [] c = "x" -> 120

RECURSIVE StrLess(_, _)
\* a < b on Python str
StrLess(a, b) ==
    IF b = <<>> THEN FALSE
    ELSE IF a = <<>> THEN TRUE
    ELSE IF Head(a) # Head(b) THEN Ord(Head(a)) < Ord(Head(b))
    ELSE StrLess(Tail(a), Tail(b))

\* tok in s on Python str
Contains(tok, s) ==
    \E i \in 0..(Len(s) - Len(tok)) : SubSeq(s, i + 1, i + Len(tok)) = tok

StartsWith(s, p) == Len(p) <= Len(s) /\ SubSeq(s, 1, Len(p)) = p
EndsWith(s, p) == Len(p) <= Len(s) /\ SubSeq(s, Len(s) - Len(p) + 1, Len(s)) = p

RECURSIVE str_replace(_, _, _)
\* s.replace(old, new): every occurrence, from the left, without overlaps
str_replace(s, old, new) ==
    IF old = <<>> \/ Len(s) < Len(old) THEN s
    ELSE IF SubSeq(s, 1, Len(old)) = old
    THEN new \o str_replace(SubSeq(s, Len(old) + 1, Len(s)), old, new)
    ELSE <<Head(s)>> \o str_replace(Tail(s), old, new)

RECURSIVE Split(_, _)
\* s.split(sep) for a one-character sep
Split(s, sep) ==
    IF \A i \in 1..Len(s) : s[i] # sep THEN <<s>>
    ELSE LET i == CHOOSE k \in 1..Len(s) :
                      s[k] = sep /\ \A j \in 1..(k - 1) : s[j] # sep
         IN  <<SubSeq(s, 1, i - 1)>> \o Split(SubSeq(s, i + 1, Len(s)), sep)

RECURSIVE Join(_, _)
\* sep.join(parts)
Join(parts, sep) ==
    IF parts = <<>> THEN <<>>
    ELSE IF Len(parts) = 1 THEN parts[1]
    ELSE parts[1] \o <<sep>> \o Join(Tail(parts), sep)

\* s.rfind(c): the last index of c in s, 0 when absent (1-based)
RFind(s, c) ==
    IF \A i \in 1..Len(s) : s[i] # c THEN 0
    ELSE CHOOSE k \in 1..Len(s) : s[k] = c /\ \A j \in (k + 1)..Len(s) : s[j] # c

\* s.rsplit(sep, 1)[0]
RSplitFirst(s, sep) ==
    IF RFind(s, sep) = 0 THEN s ELSE SubSeq(s, 1, RFind(s, sep) - 1)

RECURSIVE FnMatch(_, _)
\* fnmatch of one path component: "*" matches any run of characters
FnMatch(p, s) ==
    IF p = <<>> THEN s = <<>>
    ELSE IF Head(p) = "*"
         THEN FnMatch(Tail(p), s) \/ (s # <<>> /\ FnMatch(p, Tail(s)))
         ELSE s # <<>> /\ Head(s) = Head(p) /\ FnMatch(Tail(p), Tail(s))

(***************************************************************************)
(* natsort: the key of natsorted(..., key=lambda p: p.name) with the       *)
(* default algorithm (unsigned integers): the name is cut into runs of     *)
(* digits, read as integers, and runs of other characters; a key that      *)
(* would start with a number gets an empty string in front.                *)
(***************************************************************************)
RECURSIVE IntOf(_)
IntOf(ds) == IF ds = <<>> THEN 0 ELSE 10 * IntOf(SubSeq(ds, 1, Len(ds) - 1)) + (Ord(ds[Len(ds)]) - 48)

\* length of the longest prefix of s whose characters are all (not) digits
RunLen(s, digit) ==
    IF \A i \in 1..Len(s) : (s[i] \in Digits) = digit THEN Len(s)
    ELSE (CHOOSE k \in 1..Len(s) :
              ((s[k] \in Digits) # digit) /\ \A j \in 1..(k - 1) : (s[j] \in Digits) = digit) - 1

RECURSIVE NatRuns(_)
NatRuns(s) ==
    IF s = <<>> THEN <<>>
    ELSE LET d == Head(s) \in Digits
             n == RunLen(s, d)
             run == SubSeq(s, 1, n)
         IN  <<[num |-> d, n |-> IF d THEN IntOf(run) ELSE 0, t |-> IF d THEN <<>> ELSE run]>>
             \o NatRuns(SubSeq(s, n + 1, Len(s)))

\* a variant of the key: the whole name as one run of text
natsort_key_text(s) == IF s = <<>> THEN <<>> ELSE <<[num |-> FALSE, n |-> 0, t |-> s]>>

natsort_key(s) ==
    LET runs == NatRuns(s)
    IN  IF runs # <<>> /\ runs[1].num
        THEN <<[num |-> FALSE, n |-> 0, t |-> <<>>]>> \o runs
        ELSE runs

RECURSIVE KeyLess(_, _)
\* k1 < k2 on the key tuples
KeyLess(k1, k2) ==
    IF k2 = <<>> THEN FALSE
    ELSE IF k1 = <<>> THEN TRUE
    ELSE IF k1[1] = k2[1] THEN KeyLess(Tail(k1), Tail(k2))
    ELSE IF k1[1].num THEN k1[1].n < k2[1].n
    ELSE StrLess(k1[1].t, k2[1].t)

(***************************************************************************)
(* pathlib.  A path is the sequence of its parts; CWD is the process's     *)
(* working directory, against which a relative root is looked up.          *)
(***************************************************************************)
Anchor == <<"/">>
CWD == <<Anchor>>

\* Path(s): empty and "." components are dropped, a leading "/" is the anchor
ParsePath(s) ==
    LET comps == SelectSeq(Split(s, "/"), LAMBDA c : c # <<>> /\ c # <<".">>)
    IN  IF s # <<>> /\ Head(s) = "/" THEN <<Anchor>> \o comps ELSE comps

IsAbsolute(p) == p # <<>> /\ p[1] = Anchor

\* str(path)
PathStr(p) ==
    IF p = <<>> THEN <<".">>
    ELSE IF IsAbsolute(p) THEN <<"/">> \o Join(Tail(p), "/")
    ELSE Join(p, "/")

\* path.name
Name(p) == IF p = <<>> \/ p = <<Anchor>> THEN <<>> ELSE p[Len(p)]

\* path.stem: the name without its last suffix
Stem(p) ==
    LET name == Name(p)
        k == RFind(name, ".")
    IN  IF 1 < k /\ k < Len(name) THEN SubSeq(name, 1, k - 1) ELSE name

\* path.suffix: the last dot of the name and what follows it, if the dot is
\* neither the first nor the last character
Suffix(p) ==
    LET name == Name(p)
        k == RFind(name, ".")
    IN  IF 1 < k /\ k < Len(name) THEN SubSeq(name, k, Len(name)) ELSE <<>>

\* path.with_name(name) raises ValueError for these names
InvalidName(name) == name = <<>> \/ name = <<".">> \/ "/" \in Range(name)

with_name(p, name) == [p EXCEPT ![Len(p)] = name]

\* path.with_suffix(suffix), for a path that has a name: the suffix replaces
\* path.suffix, or is appended when there is none
with_suffix(p, suffix) ==
    with_name(p, SubSeq(Name(p), 1, Len(Name(p)) - Len(Suffix(p))) \o suffix)

\* path.resolve() on a disk without links and for a path without "..": the
\* path made absolute
Path_resolve(p) == IF IsAbsolute(p) THEN p ELSE CWD \o p

IsRelativeTo(p, base) == Len(base) <= Len(p) /\ SubSeq(p, 1, Len(base)) = base

\* path.relative_to(base), for a path under base
relative_to(p, base) == SubSeq(p, Len(base) + 1, Len(p))

RECURSIVE PartsLess(_, _)
\* Path.__lt__: the parts compared as a tuple of str
PartsLess(p, q) ==
    IF q = <<>> THEN FALSE
    ELSE IF p = <<>> THEN TRUE
    ELSE IF Head(p) # Head(q) THEN StrLess(Head(p), Head(q))
    ELSE PartsLess(Tail(p), Tail(q))

RECURSIVE GlobMatch(_, _)
\* the pattern's components against a path relative to the searched
\* directory: "**" stands for any number of directories, every other
\* component is matched by fnmatch against one part
GlobMatch(pc, rel) ==
    IF pc = <<>> THEN rel = <<>>
    ELSE IF Head(pc) = <<"*", "*">>
         THEN GlobMatch(Tail(pc), rel) \/ (Len(rel) > 1 /\ GlobMatch(pc, Tail(rel)))
         ELSE rel # <<>> /\ FnMatch(Head(pc), Head(rel)) /\ GlobMatch(Tail(pc), Tail(rel))

\* Path.glob raises NotImplementedError for a pattern with an anchor
\* ("Non-relative patterns are unsupported") and ValueError for an empty one
GlobRaises(pat) ==
    IF pat = <<>> THEN "ValueError"
    ELSE IF Head(pat) = "/" THEN "NotImplementedError"
    ELSE "none"

\* a variant of glob: the root is resolved against the working directory
Glob_resolved(files, root, pat) ==
    LET dir == IF IsAbsolute(root) THEN root ELSE CWD \o root
        pc == ParsePath(pat)
    IN  {f \in files : IsRelativeTo(f, dir) /\ GlobMatch(pc, relative_to(f, dir))}

\* Path(root).glob(pat) on the disk `files`: every file under the root whose
\* relative path matches, as the root's own parts followed by that path.
\* The root is not resolved: its parts are kept as the caller gave them.
Glob(files, root, pat) ==
    LET dir == IF IsAbsolute(root) THEN root ELSE CWD \o root
        pc == ParsePath(pat)
    IN  {root \o relative_to(f, dir) :
            f \in {g \in files : IsRelativeTo(g, dir) /\ GlobMatch(pc, relative_to(g, dir))}}

\* Path(root).rglob(pat) is glob("**/" + pat)
RGlob(files, root, pat) == Glob(files, root, <<"*", "*", "/">> \o pat)

RECURSIVE Perms(_)
\* every order in which a directory scan may hand out a set of paths
Perms(S) ==
    IF S = {} THEN {<<>>}
    ELSE UNION {{<<x>> \o p : p \in Perms(S \ {x})} : x \in S}

(***************************************************************************)
(* The disk and the arguments the constructors are called with.            *)
(***************************************************************************)
DirR == <<Anchor, <<"r">>>>
DirRS == <<Anchor, <<"r">>, <<"s">>>>

Universe ==
    { DirR \o <<<<"2", "_", "0", ".", "e">>>>,      \* /r/2_0.e
      DirR \o <<<<"2", "_", "1", ".", "e">>>>,      \* /r/2_1.e
      DirR \o <<<<"1", "0", "_", "0", ".", "e">>>>, \* /r/10_0.e
      DirRS \o <<<<"2", "_", "0", ".", "e">>>>,     \* /r/s/2_0.e
      DirR \o <<<<"a", "_", "x", ".", "e">>>>,      \* /r/a_x.e
      DirR \o <<<<"c", ".", "e">>>>,                \* /r/c.e
      DirR \o <<<<"_", "0", ".", "e">>>>,           \* /r/_0.e
      DirR \o <<<<"2", "_", "0", ".", "f">>>>,      \* /r/2_0.f
      CWD \o <<<<"1", "_", "0", ".", "e">>>> }      \* /1_0.e

Roots == { <<"/", "r">>, <<"r">>, <<>> }
FileTypes == { <<".", "e">>, <<>> }
Patterns ==
    { None, Some(<<"_", "0">>), Some(<<"1", "*">>), Some(<<"*", "/", "*">>),
      Some(<<"/", "*">>), Some(<<"s", "/", "2", "_", "0">>) }
IncludeNames == { None, Some(<<>>), Some(<<<<"r">>>>), Some(<<<<"1">>, <<"c">>>>) }
ExcludeNames == { None, Some(<<<<"_", "1">>>>), Some(<<<<"s", "/">>, <<"c">>>>) }

(***************************************************************************)
(* FileManager (file_manager.py).                                          *)
(***************************************************************************)
\* a variant of the early return: the search is always made
EmptyArgs_never(path, file_type) == FALSE

\* collect_files, line 66: nothing is searched for an empty extension or root
EmptyArgs(path, file_type) == file_type = <<>> \/ path = <<>>

\* a variant of the pattern: the "*" on the right of a pattern that has none
GlobPattern_starRight(pattern) ==
    IF pattern = None THEN <<"*">>
    ELSE IF "*" \notin Range(pattern[1]) THEN pattern[1] \o <<"*">>
    ELSE pattern[1]

\* collect_files, lines 70-75: the glob pattern built from self.pattern
GlobPattern(pattern) ==
    IF pattern = None THEN <<"*">>
    ELSE IF "*" \notin Range(pattern[1]) THEN <<"*">> \o pattern[1]
    ELSE pattern[1]

\* a variant of the search: rglob whatever the flag
Search_rglob(disk, path, pat, recursive) == RGlob(disk, ParsePath(path), pat)

\* collect_files, lines 77-80: rglob or glob of pattern + file_type
Search(disk, path, pat, recursive) ==
    IF recursive THEN RGlob(disk, ParsePath(path), pat)
    ELSE Glob(disk, ParsePath(path), pat)

RECURSIVE natsorted(_)
\* natsorted(files, key=lambda p: p.name): a stable sort by the natural key
natsorted(seq) ==
    IF seq = <<>> THEN <<>>
    ELSE LET front == natsorted(SubSeq(seq, 1, Len(seq) - 1))
             x == seq[Len(seq)]
             kx == natsort_key(Name(x))
             n == Cardinality({i \in 1..Len(front) :
                                  ~KeyLess(kx, natsort_key(Name(front[i])))})
         IN  SubSeq(front, 1, n) \o <<x>> \o SubSeq(front, n + 1, Len(front))

\* FileManager.collect_files: the outcomes it may have on the disk, one per
\* order in which the directory scan hands out the matches.  `located` is
\* what the search returned, sorted; `files` is self.files.
FileManager_collect_files(disk, path, file_type, pattern, recursive) ==
    LET pat == GlobPattern(pattern) \o file_type
    IN  IF EmptyArgs(path, file_type)
        THEN {[raised |-> "none", files |-> <<>>, located |-> <<>>]}
        ELSE IF GlobRaises(pat) # "none"
        THEN {[raised |-> GlobRaises(pat), files |-> <<>>, located |-> <<>>]}
        ELSE {[raised |-> "none", files |-> natsorted(order), located |-> natsorted(order)] :
                 order \in Perms(Search(disk, path, pat, recursive))}

\* a variant of the stem: only a trailing _<digits> group is cut
StackStem_digits(file) ==
    LET b == Stem(file)
        k == RFind(b, "_")
    IN  IF k > 0 /\ k < Len(b) /\ \A j \in (k + 1)..Len(b) : b[j] \in Digits
        THEN SubSeq(b, 1, k - 1) ELSE b

\* file.stem.rsplit("_", 1)[0], line 125
StackStem(file) == RSplitFirst(Stem(file), "_")

\* a variant of np.unique: the paths as they are, doubles kept
np_unique_all(seq) == seq

\* np.unique(files): the distinct paths in ascending order
np_unique(seq) ==
    CHOOSE s \in Perms(Range(seq)) :
        \A i \in 1..Len(s) : \A j \in (i + 1)..Len(s) : PartsLess(s[i], s[j])

\* FileManagerStacked.collect_files, lines 122-128
FileManagerStacked_collect_files(disk, path, file_type, pattern, recursive) ==
    { IF o.raised # "none" \/ o.files = <<>> THEN o
      ELSE IF \E i \in 1..Len(o.files) : InvalidName(StackStem(o.files[i]))
      THEN [raised |-> "ValueError", files |-> <<>>, located |-> o.located]
      ELSE [o EXCEPT !.files =
                natsorted(np_unique([i \in 1..Len(o.files) |->
                                        with_name(o.files[i], StackStem(o.files[i]))]))] :
      o \in FileManager_collect_files(disk, path, file_type, pattern, recursive) }

\* a variant of the tested name: the whole path
RelName_whole(file, path) == PathStr(file)

\* str(_file.relative_to(self.path)), lines 50 and 58
RelName(file, path) == PathStr(relative_to(file, ParsePath(path)))

\* filter_files, lines 48-63
filter_files(files, path, include_names, exclude_names) ==
    LET kept == IF include_names = None THEN files
                ELSE SelectSeq(files, LAMBDA f :
                         \E tok \in Range(include_names[1]) : Contains(tok, RelName(f, path)))
    IN  IF exclude_names = None THEN kept
        ELSE SelectSeq(kept, LAMBDA f :
                 ~\E tok \in Range(exclude_names[1]) : Contains(tok, RelName(f, path)))

\* a variant of the stacked construction: the filters run on the located
\* files, and a stem stays when one of its files does
Build_filterFirst(cls, o, path, file_type, pattern, include_names, exclude_names, recursive) ==
    /\ call' = Some([cls |-> cls, path |-> path, file_type |-> file_type,
                     pattern |-> pattern, include_names |-> include_names,
                     exclude_names |-> exclude_names, recursive |-> recursive,
                     located |-> o.located, found |-> o.files])
    /\ raised' = o.raised
    /\ fm' = IF o.raised # "none" THEN None
             ELSE Some([cls |-> cls, path |-> path, file_type |-> file_type,
                        pattern |-> pattern, include_names |-> include_names,
                        exclude_names |-> exclude_names, recursive |-> recursive,
                        files |->
                            IF cls = "FileManagerStacked"
                            THEN SelectSeq(o.files, LAMBDA s :
                                     \E f \in Range(filter_files(o.located, path, include_names,
                                                                 exclude_names)) :
                                         with_name(f, StackStem(f)) = s)
                            ELSE filter_files(o.files, path, include_names, exclude_names)])

\* __init__, lines 30-46: the object, or the exception collect_files raised.
\* A behaviour follows one object from its construction on.
Build(cls, o, path, file_type, pattern, include_names, exclude_names, recursive) ==
    /\ call' = Some([cls |-> cls, path |-> path, file_type |-> file_type,
                     pattern |-> pattern, include_names |-> include_names,
                     exclude_names |-> exclude_names, recursive |-> recursive,
                     located |-> o.located, found |-> o.files])
    /\ raised' = o.raised
    /\ fm' = IF o.raised # "none" THEN None
             ELSE Some([cls |-> cls, path |-> path, file_type |-> file_type,
                        pattern |-> pattern, include_names |-> include_names,
                        exclude_names |-> exclude_names, recursive |-> recursive,
                        files |-> filter_files(o.files, path, include_names, exclude_names)])

\* FileManager(path, file_type, pattern, include_names, exclude_names, recursive)
NewFileManager ==
    /\ call = None
    /\ \E path \in Roots, file_type \in FileTypes, pattern \in Patterns, recursive \in BOOLEAN :
        \E o \in FileManager_collect_files(fs, path, file_type, pattern, recursive) :
        \E include_names \in IncludeNames, exclude_names \in ExcludeNames :
            /\ Build("FileManager", o, path, file_type, pattern, include_names,
                     exclude_names, recursive)
            /\ UNCHANGED <<fs, regVars, ioVars, cfgVars>>

\* FileManagerStacked(path, file_type, pattern, include_names, exclude_names, recursive)
NewFileManagerStacked ==
    /\ call = None
    /\ \E path \in Roots, file_type \in FileTypes, pattern \in Patterns, recursive \in BOOLEAN :
        \E o \in FileManagerStacked_collect_files(fs, path, file_type, pattern, recursive) :
        \E include_names \in IncludeNames, exclude_names \in ExcludeNames :
            /\ Build("FileManagerStacked", o, path, file_type, pattern, include_names,
                     exclude_names, recursive)
            /\ UNCHANGED <<fs, regVars, ioVars, cfgVars>>

\* name_from_path(file, include_ext), lines 87-93, on the object m
name_from_path(m, file, include_ext) ==
    LET name == PathStr(relative_to(file, ParsePath(m.path)))
    IN  IF include_ext THEN name ELSE str_replace(name, m.file_type, <<>>)

\* path_from_name(name, include_ext), lines 95-99, on the object m
path_from_name(m, name, include_ext) ==
    LET rel == ParsePath(name)
    IN  IF include_ext /\ Suffix(rel) # m.file_type
        THEN IF Name(rel) = <<>> THEN [raised |-> "ValueError", path |-> <<>>]
             ELSE [raised |-> "none",
                   path |-> Path_resolve(ParsePath(m.path) \o with_suffix(rel, m.file_type))]
        ELSE [raised |-> "none", path |-> Path_resolve(ParsePath(m.path) \o rel)]

\* the disk and the constructor arguments of the name operations: a compound
\* extension, and a name that holds the extension twice
NameUniverse ==
    { DirR \o <<<<"c", ".", "e">>>>,                      \* /r/c.e
      DirR \o <<<<"a", ".", "f", ".", "e">>>>,            \* /r/a.f.e
      DirR \o <<<<"a", ".", "e", "x", ".", "e">>>>,       \* /r/a.ex.e
      DirRS \o <<<<"b", ".", "f", ".", "e">>>>,           \* /r/s/b.f.e
      DirR \o <<<<"2", "_", "0", ".", "e">>>> }           \* /r/2_0.e
NameRoots == { <<"/", "r">>, <<"r">> }
NameTypes == { <<".", "e">>, <<".", "f", ".", "e">> }

\* FileManager(path, file_type, recursive=...) and FileManagerStacked(...)
\* over the disk of the name operations
NewFileManagerForNames ==
    /\ call = None
    /\ \E cls \in {"FileManager", "FileManagerStacked"}, path \in NameRoots,
          file_type \in NameTypes, recursive \in BOOLEAN :
        \E o \in IF cls = "FileManager"
                 THEN FileManager_collect_files(fs, path, file_type, None, recursive)
                 ELSE FileManagerStacked_collect_files(fs, path, file_type, None, recursive) :
            /\ Build(cls, o, path, file_type, None, None, None, recursive)
            /\ UNCHANGED <<fs, regVars, ioVars, cfgVars>>

\* fm.name_from_path(i, include_ext) for an index of the list
NameFromPath ==
    /\ fm # None
    /\ \E i \in 1..Len(fm[1].files), include_ext \in BOOLEAN :
          out' = Some([op |-> "name_from_path", file |-> fm[1].files[i],
                       include_ext |-> include_ext, raised |-> "none",
                       name |-> name_from_path(fm[1], fm[1].files[i], include_ext)])
    /\ UNCHANGED <<cfg, cfg0, cm, fmVars, regVars, ioVars>>

\* fm.path_from_name(name, include_ext) for the name the last call gave;
\* `of` and `with_ext` are the file and the flag the name was made of
PathFromName ==
    /\ fm # None /\ out # None /\ out[1].op = "name_from_path"
    /\ \E include_ext \in BOOLEAN :
          LET r == path_from_name(fm[1], out[1].name, include_ext)
          IN  out' = Some([op |-> "path_from_name", name |-> out[1].name,
                           include_ext |-> include_ext, of |-> out[1].file,
                           with_ext |-> out[1].include_ext,
                           raised |-> r.raised, path |-> r.path])
    /\ UNCHANGED <<cfg, cfg0, cm, fmVars, regVars, ioVars>>

(***************************************************************************)
(* The codec registry (vidata.registry) and the adapters of numpy_io.py    *)
(* that attach to it.  A binding is [kind, ext, backend, fn]; each of the  *)
(* two tables keeps its bindings in registration order.                    *)
(***************************************************************************)
Kinds == {"image", "mask"}
Exts == {".npy", ".x"}
Backends == {"numpy", "A", "B"}

Bound(table, kind, ext, backend) ==
    \E i \in 1..Len(table) :
        table[i].kind = kind /\ table[i].ext = ext /\ table[i].backend = backend

\* a variant of register: a later registration replaces the binding
register_replace(table, kind, ext, backend, fn) ==
    IF Bound(table, kind, ext, backend)
    THEN [ok |-> TRUE,
          table |-> [i \in 1..Len(table) |->
                        IF table[i].kind = kind /\ table[i].ext = ext /\ table[i].backend = backend
                        THEN [table[i] EXCEPT !.fn = fn] ELSE table[i]]]
    ELSE [ok |-> TRUE,
          table |-> Append(table, [kind |-> kind, ext |-> ext, backend |-> backend, fn |-> fn])]

\* register(kind, ext, backend)(fn): an error for a triple already bound,
\* a new binding after the others otherwise
register(table, kind, ext, backend, fn) ==
    IF Bound(table, kind, ext, backend)
    THEN [ok |-> FALSE, table |-> table]
    ELSE [ok |-> TRUE,
          table |-> Append(table, [kind |-> kind, ext |-> ext, backend |-> backend, fn |-> fn])]

\* a variant of resolve: a named backend that is not bound falls back to the
\* default one
resolve_fallback(table, kind, ext, backend) ==
    LET cands == SelectSeq(table, LAMBDA b : b.kind = kind /\ b.ext = ext)
        named == SelectSeq(cands, LAMBDA b : backend # None /\ b.backend = backend[1])
    IN  IF cands = <<>> THEN [outcome |-> "UnsupportedFormat", fn |-> None, backend |-> None]
        ELSE IF backend = None \/ named = <<>>
        THEN [outcome |-> "ok", fn |-> Some(cands[1].fn), backend |-> Some(cands[1].backend)]
        ELSE [outcome |-> "ok", fn |-> Some(named[1].fn), backend |-> Some(named[1].backend)]

\* a variant of resolve: without a backend, the binding registered last
resolve_last(table, kind, ext, backend) ==
    LET cands == SelectSeq(table, LAMBDA b : b.kind = kind /\ b.ext = ext)
        named == SelectSeq(cands, LAMBDA b : backend # None /\ b.backend = backend[1])
    IN  IF cands = <<>> THEN [outcome |-> "UnsupportedFormat", fn |-> None, backend |-> None]
        ELSE IF backend = None
        THEN [outcome |-> "ok", fn |-> Some(cands[Len(cands)].fn), backend |-> Some(cands[Len(cands)].backend)]
        ELSE IF named = <<>> THEN [outcome |-> "UnknownBackend", fn |-> None, backend |-> None]
        ELSE [outcome |-> "ok", fn |-> Some(named[1].fn), backend |-> Some(named[1].backend)]

\* resolve(kind, ext, backend): the binding of the named backend, or of the
\* backend registered first for (kind, ext) when none is named
resolve(table, kind, ext, backend) ==
    LET cands == SelectSeq(table, LAMBDA b : b.kind = kind /\ b.ext = ext)
        named == SelectSeq(cands, LAMBDA b : backend # None /\ b.backend = backend[1])
    IN  IF cands = <<>> THEN [outcome |-> "UnsupportedFormat", fn |-> None, backend |-> None]
        ELSE IF backend = None
        THEN [outcome |-> "ok", fn |-> Some(cands[1].fn), backend |-> Some(cands[1].backend)]
        ELSE IF named = <<>> THEN [outcome |-> "UnknownBackend", fn |-> None, backend |-> None]
        ELSE [outcome |-> "ok", fn |-> Some(named[1].fn), backend |-> Some(named[1].backend)]

\* numpy_io.py: the registrations its import makes, in the order the
\* decorators run (the one nearest to the function first)
NumpyIORegistrations ==
    << [table |-> "loader", kind |-> "mask", ext |-> ".npy", backend |-> "numpy", fn |-> <<"load_npy">>],
       [table |-> "loader", kind |-> "image", ext |-> ".npy", backend |-> "numpy", fn |-> <<"load_npy">>],
       [table |-> "writer", kind |-> "mask", ext |-> ".npy", backend |-> "numpy", fn |-> <<"save_npy">>],
       [table |-> "writer", kind |-> "image", ext |-> ".npy", backend |-> "numpy", fn |-> <<"save_npy">>],
       [table |-> "loader", kind |-> "mask", ext |-> ".npz", backend |-> "numpy", fn |-> <<"load_npz">>],
       [table |-> "loader", kind |-> "image", ext |-> ".npz", backend |-> "numpy", fn |-> <<"load_npz">>],
       [table |-> "writer", kind |-> "mask", ext |-> ".npz", backend |-> "numpy", fn |-> <<"save_npz">>],
       [table |-> "writer", kind |-> "image", ext |-> ".npz", backend |-> "numpy", fn |-> <<"save_npz">>] >>

RECURSIVE RegisterAll(_, _)
\* the registrations `regs` made one after the other on the registry st;
\* the first one that fails ends the import
RegisterAll(st, regs) ==
    IF regs = <<>> THEN [st EXCEPT !.ok = TRUE]
    ELSE LET r == Head(regs)
             res == register(IF r.table = "loader" THEN st.loaders ELSE st.writers,
                             r.kind, r.ext, r.backend, r.fn)
             st2 == [loaders |-> IF r.table = "loader" THEN res.table ELSE st.loaders,
                     writers |-> IF r.table = "writer" THEN res.table ELSE st.writers,
                     log |-> Append(st.log, [call |-> r, ok |-> res.ok]),
                     ok |-> res.ok]
         IN  IF res.ok THEN RegisterAll(st2, Tail(regs)) ELSE st2

\* import vidata.io.numpy_io; an import that fails is not tried again
ImportNumpyIO ==
    /\ imported = "no"
    /\ LET st == RegisterAll([loaders |-> loaders, writers |-> writers, log |-> regLog, ok |-> TRUE],
                             NumpyIORegistrations)
       IN  /\ loaders' = st.loaders
           /\ writers' = st.writers
           /\ regLog' = st.log
           /\ imported' = IF st.ok THEN "yes" ELSE "failed"
    /\ UNCHANGED <<nreg, resolved, fmVars, ioVars, cfgVars>>

\* another adapter's @register_loader(kind, ext, backend=backend)
RegisterLoader ==
    /\ nreg < MaxRegs
    /\ \E backend \in Backends :
        LET r == [table |-> "loader", kind |-> "image", ext |-> ".npy", backend |-> backend,
                  fn |-> <<"load", backend, nreg>>]
            res == register(loaders, r.kind, r.ext, r.backend, r.fn)
        IN  /\ loaders' = res.table
            /\ regLog' = Append(regLog, [call |-> r, ok |-> res.ok])
    /\ nreg' = nreg + 1
    /\ UNCHANGED <<writers, imported, resolved, fmVars, ioVars, cfgVars>>

\* another adapter's @register_writer(kind, ext, backend=backend)
RegisterWriter ==
    /\ nreg < MaxRegs
    /\ \E backend \in Backends :
        LET r == [table |-> "writer", kind |-> "image", ext |-> ".npy", backend |-> backend,
                  fn |-> <<"save", backend, nreg>>]
            res == register(writers, r.kind, r.ext, r.backend, r.fn)
        IN  /\ writers' = res.table
            /\ regLog' = Append(regLog, [call |-> r, ok |-> res.ok])
    /\ nreg' = nreg + 1
    /\ UNCHANGED <<loaders, imported, resolved, fmVars, ioVars, cfgVars>>

\* a loader class resolving its function: ImageLoader(ftype, backend)
ResolveLoader ==
    /\ \E kind \in Kinds, ext \in Exts, backend \in {None} \cup {Some(b) : b \in Backends} :
        resolved' = Some([table |-> "loader", kind |-> kind, ext |-> ext, asked |-> backend,
                          at |-> Len(regLog),
                          res |-> resolve(loaders, kind, ext, backend)])
    /\ UNCHANGED <<loaders, writers, imported, nreg, regLog, fmVars, ioVars, cfgVars>>

\* a writer class resolving its function: ImageWriter(ftype, backend)
ResolveWriter ==
    /\ \E kind \in Kinds, ext \in Exts, backend \in {None} \cup {Some(b) : b \in Backends} :
        resolved' = Some([table |-> "writer", kind |-> kind, ext |-> ext, asked |-> backend,
                          at |-> Len(regLog),
                          res |-> resolve(writers, kind, ext, backend)])
    /\ UNCHANGED <<loaders, writers, imported, nreg, regLog, fmVars, ioVars, cfgVars>>

(***************************************************************************)
(* The array adapters of numpy_io.py.  Python values carry their type: an  *)
(* ndarray is the sequence of its planes along the leading axis, a dict    *)
(* of arrays the sequence of its (key, planes) items.  A file holds what   *)
(* numpy wrote.                                                            *)
(***************************************************************************)
Arr(planes) == [t |-> "ndarray", planes |-> planes, items |-> <<>>]
Dict(items) == [t |-> "dict", planes |-> <<>>, items |-> items]
PyNone == [t |-> "None", planes |-> <<>>, items |-> <<>>]

\* Python's truth value of an argument
Truthy(x) == IF x.t = "dict" THEN x.items # <<>> ELSE FALSE

Npy == <<".", "n", "p", "y">>
Npz == <<".", "n", "p", "z">>

\* the store with `content` written at `path`
Write(st, path, content) ==
    [q \in DOMAIN st \cup {path} |-> IF q = path THEN content ELSE st[q]]

\* a variant of np_save: ".npy" is appended to every name
np_save_appends(st, file, arr, by) ==
    Write(st, file \o Npy, [fmt |-> "npy", data |-> arr, compressed |-> FALSE, by |-> by])

\* np.save(file, arr): ".npy" is appended to a name that lacks it
np_save(st, file, arr, by) ==
    Write(st, IF EndsWith(file, Npy) THEN file ELSE file \o Npy,
          [fmt |-> "npy", data |-> arr, compressed |-> FALSE, by |-> by])

\* np.savez / np.savez_compressed(file, *args, **kwds): ".npz" is appended
\* to a name that lacks it
np_savez(st, file, items, compressed, by) ==
    Write(st, IF EndsWith(file, Npz) THEN file ELSE file \o Npz,
          [fmt |-> "npz", data |-> Dict(items), compressed |-> compressed, by |-> by])

\* np.load(path, allow_pickle=False): the array of a .npy file, the NpzFile
\* (a mapping) of a .npz file
np_load(st, path) ==
    IF path \notin DOMAIN st THEN [raised |-> "FileNotFoundError", fmt |-> "", value |-> PyNone]
    ELSE [raised |-> "none", fmt |-> st[path].fmt, value |-> st[path].data]

\* load_npy(path): np.load(path, allow_pickle=False), {}
load_npy(st, path) ==
    LET r == np_load(st, path)
    IN  [raised |-> r.raised, value |-> r.value,
         meta |-> IF r.raised = "none" THEN Dict(<<>>) ELSE PyNone]

\* save_npy(array, path, *args, **kwargs): np.save(path, array)
save_npy(st, array, path, args, kwargs, by) == np_save(st, path, array, by)

\* load_npz(path): with np.load(path) as data: {key: data[key]}, {}
load_npz(st, path) ==
    LET r == np_load(st, path)
    IN  IF r.raised # "none" THEN [raised |-> r.raised, value |-> PyNone, meta |-> PyNone]
        ELSE IF r.fmt # "npz" THEN [raised |-> "TypeError", value |-> PyNone, meta |-> PyNone]
        ELSE [raised |-> "none", value |-> r.value, meta |-> Dict(<<>>)]

\* a variant of save_npz: the third positional argument is stored as metadata
save_npz_keepmeta(st, data_dict, path, args, kwargs, by) ==
    LET items == IF data_dict.t = "dict" THEN data_dict.items ELSE <<<<"arr_0", data_dict.planes>>>>
    IN  np_savez(st, path, items \o (IF args = <<>> THEN <<>> ELSE args[1].items),
                 TRUE, by)

\* save_npz(data_dict, path, compress=True, *args, **kwargs): a third
\* positional argument is taken as `compress`
save_npz(st, data_dict, path, args, kwargs, by) ==
    LET compress == IF args = <<>> THEN TRUE ELSE Truthy(args[1])
        items == IF data_dict.t = "dict" THEN data_dict.items ELSE <<<<"arr_0", data_dict.planes>>>>
    IN  np_savez(st, path, items, compress, by)

\* arrays, metadata and paths the calls are made with
Arrays == { Arr(<<0>>), Arr(<<0, 1>>), Arr(<<1, 0>>) }
Spacing == Dict(<<<<"spacing", <<1>>>>>>)
MetaArgs ==
    { [args |-> <<>>, kwargs |-> {}],
      [args |-> <<Dict(<<>>)>>, kwargs |-> {}],
      [args |-> <<Spacing>>, kwargs |-> {}] }
TStem == <<"t">>
IOPaths == { TStem \o Npy, TStem \o Npz, TStem }

\* save_npy(array, path, ...) called as it is
SaveNpy ==
    /\ nio < MaxOps
    /\ \E array \in Arrays, path \in {TStem \o Npy, TStem}, m \in MetaArgs :
        /\ store' = save_npy(store, array, path, m.args, m.kwargs,
                             [op |-> "save_npy", path |-> path, data |-> array])
        /\ io' = Some([op |-> "save_npy", path |-> path, data |-> array, m |-> m])
    /\ nio' = nio + 1
    /\ UNCHANGED <<fmVars, regVars, cfgVars>>

\* save_npz(data, path, ...) called as it is
SaveNpz ==
    /\ nio < MaxOps
    /\ \E data \in Arrays \cup {Dict(<<<<"data", <<1>>>>>>)}, path \in {TStem \o Npz, TStem},
          m \in MetaArgs :
        /\ store' = save_npz(store, data, path, m.args, m.kwargs,
                             [op |-> "save_npz", path |-> path, data |-> data])
        /\ io' = Some([op |-> "save_npz", path |-> path, data |-> data, m |-> m])
    /\ nio' = nio + 1
    /\ UNCHANGED <<fmVars, regVars, cfgVars>>

\* load_npy(path) called as it is
LoadNpy ==
    /\ nio < MaxOps
    /\ \E path \in IOPaths :
        io' = Some([op |-> "load_npy", path |-> path, res |-> load_npy(store, path)])
    /\ nio' = nio + 1
    /\ UNCHANGED <<store, fmVars, regVars, cfgVars>>

\* load_npz(path) called as it is
LoadNpz ==
    /\ nio < MaxOps
    /\ \E path \in IOPaths :
        io' = Some([op |-> "load_npz", path |-> path, res |-> load_npz(store, path)])
    /\ nio' = nio + 1
    /\ UNCHANGED <<store, fmVars, regVars, cfgVars>>

(***************************************************************************)
(* The task-typed loaders and writers (vidata.loaders, vidata.writers)     *)
(* over the registry: the plain ones hand the call to the adapter that     *)
(* resolve returns, the stacked ones write and read one file per index of  *)
(* the leading axis, <stem>_<NNNN><extension>.                             *)
(***************************************************************************)
ExtChars(ext) == IF ext = ".npy" THEN Npy ELSE IF ext = ".npz" THEN Npz ELSE <<".", "x">>

\* the adapter function a binding names, called
CallWriter(fn, st, data, file, args, kwargs, by) ==
    IF fn = <<"save_npy">> THEN save_npy(st, data, file, args, kwargs, by)
    ELSE IF fn = <<"save_npz">> THEN save_npz(st, data, file, args, kwargs, by)
    ELSE st

CallLoader(fn, st, file) ==
    IF fn = <<"load_npy">> THEN load_npy(st, file)
    ELSE IF fn = <<"load_npz">> THEN load_npz(st, file)
    ELSE [raised |-> "NotModelled", value |-> PyNone, meta |-> PyNone]

\* f"{i:04d}"
Pad4(i) ==
    LET d(k) == CHOOSE c \in Digits : Ord(c) - Ord("0") = k
    IN  << d((i \div 1000) % 10), d((i \div 100) % 10), d((i \div 10) % 10), d(i % 10) >>

\* the file of index i of the family of `file`
StackName(file, i, ext) == file \o <<"_">> \o Pad4(i) \o ExtChars(ext)

\* a variant of StackOrder: the family is read from its last index down
StackOrder_desc(channels) == [k \in 1..channels |-> channels - k]

\* the indices of a family of `channels` files, in the order they are
\* written and read
StackOrder(channels) == [k \in 1..channels |-> k - 1]

\* the planes of `data` written one file per index
StackedWrite(fn, st, data, file, ext, by) ==
    LET order == StackOrder(Len(data.planes))
        step[k \in 0..Len(order)] ==
            IF k = 0 THEN st
            ELSE CallWriter(fn, step[k - 1], Arr(<<data.planes[order[k] + 1]>>),
                            StackName(file, order[k], ext), <<>>, {}, by)
    IN  step[Len(order)]

\* the files of the family read in index order and stacked along the
\* leading axis
StackedRead(fn, st, file, ext, channels) ==
    LET order == StackOrder(channels)
        got == [k \in 1..channels |-> CallLoader(fn, st, StackName(file, order[k], ext))]
        bad == {k \in 1..channels : got[k].raised # "none"}
    IN  IF bad # {}
        THEN [raised |-> got[CHOOSE k \in bad : \A j \in bad : k <= j].raised,
              value |-> PyNone, meta |-> PyNone]
        ELSE [raised |-> "none",
              value |-> Arr([k \in 1..channels |-> got[k].value.planes[1]]),
              meta |-> got[1].meta]

IOKinds == {"image", "mask"}
IOExts == {".npy", ".npz"}
IOBackends == {None, Some("numpy"), Some("A")}

\* ImageWriter / SemSegWriter(ftype, backend).save(data, file)
WriterSave ==
    /\ nio < MaxOps
    /\ \E kind \in IOKinds, ext \in IOExts, backend \in IOBackends, data \in Arrays :
        LET r == resolve(writers, kind, ext, backend)
            file == TStem \o ExtChars(ext)
            c == [op |-> "writer.save", path |-> file, data |-> data]
        IN  /\ store' = IF r.outcome = "ok"
                        THEN CallWriter(r.fn[1], store, data, file, <<>>, {}, c)
                        ELSE store
            /\ io' = Some([op |-> "writer.save", path |-> file, data |-> data,
                           kind |-> kind, ext |-> ext, backend |-> backend,
                           raised |-> IF r.outcome = "ok" THEN "none" ELSE r.outcome])
    /\ nio' = nio + 1
    /\ UNCHANGED <<fmVars, regVars, cfgVars>>

\* ImageLoader / SemSegLoader(ftype, backend).load(file)
LoaderLoad ==
    /\ nio < MaxOps
    /\ \E kind \in IOKinds, ext \in IOExts, backend \in IOBackends :
        LET r == resolve(loaders, kind, ext, backend)
            file == TStem \o ExtChars(ext)
        IN  io' = Some([op |-> "loader.load", path |-> file,
                        kind |-> kind, ext |-> ext, backend |-> backend,
                        res |-> IF r.outcome = "ok" THEN CallLoader(r.fn[1], store, file)
                                ELSE [raised |-> r.outcome, value |-> PyNone, meta |-> PyNone]])
    /\ nio' = nio + 1
    /\ UNCHANGED <<store, fmVars, regVars, cfgVars>>

\* ImageStackWriter(ftype, channels, backend).save(data, file), with the
\* channels of data
StackedSave ==
    /\ nio < MaxOps
    /\ \E backend \in IOBackends, data \in Arrays :
        LET r == resolve(writers, "image", ".npy", backend)
            c == [op |-> "stacked.save", path |-> TStem, data |-> data]
        IN  /\ store' = IF r.outcome = "ok"
                        THEN StackedWrite(r.fn[1], store, data, TStem, ".npy", c)
                        ELSE store
            /\ io' = Some([op |-> "stacked.save", path |-> TStem, data |-> data,
                           backend |-> backend,
                           raised |-> IF r.outcome = "ok" THEN "none" ELSE r.outcome])
    /\ nio' = nio + 1
    /\ UNCHANGED <<fmVars, regVars, cfgVars>>

\* ImageStackLoader(ftype, channels, backend).load(file)
StackedLoad ==
    /\ nio < MaxOps
    /\ \E backend \in IOBackends, channels \in {Len(a.planes) : a \in Arrays} :
        LET r == resolve(loaders, "image", ".npy", backend)
        IN  io' = Some([op |-> "stacked.load", path |-> TStem, channels |-> channels,
                        backend |-> backend,
                        res |-> IF r.outcome = "ok"
                                THEN StackedRead(r.fn[1], store, TStem, ".npy", channels)
                                ELSE [raised |-> r.outcome, value |-> PyNone, meta |-> PyNone]])
    /\ nio' = nio + 1
    /\ UNCHANGED <<store, fmVars, regVars, cfgVars>>

(***************************************************************************)
(* The dataset configuration and cli/verify_config.py.  A scalar of the    *)
(* configuration carries its type; a mapping is the sequence of its        *)
(* (key, value) items in insertion order.                                  *)
(***************************************************************************)
VStr(chars) == [t |-> "str", s |-> chars, n |-> 0]
VInt(n) == [t |-> "int", s |-> <<>>, n |-> n]
VBool(b) == [t |-> "bool", s |-> <<>>, n |-> IF b THEN 1 ELSE 0]
VNone == [t |-> "None", s |-> <<>>, n |-> 0]

\* key in d
Has(d, k) == \E i \in 1..Len(d) : d[i][1] = k

\* d.get(k, default)
GetOr(d, k, default) ==
    IF Has(d, k) THEN d[CHOOSE i \in 1..Len(d) : d[i][1] = k][2] ELSE default

\* d.get(k): None for a key that is absent
Get(d, k) == GetOr(d, k, VNone)

\* d[k] = v: in place for a key d has, at the end for a new one
Set(d, k, v) ==
    IF Has(d, k) THEN [i \in 1..Len(d) |-> IF d[i][1] = k THEN <<k, v>> ELSE d[i]]
    ELSE Append(d, <<k, v>>)

\* the keys of d, as iterating d yields them
Keys(d) == [i \in 1..Len(d) |-> d[i][1]]

\* the nodes of cfg.layers: a layer mapping, or a string
LayerNode(d) == [kind |-> "layer", d |-> d, s |-> ""]
StrNode(s) == [kind |-> "str", d |-> <<>>, s |-> s]

\* isinstance(v, str), isinstance(v, int): a bool is an int
IsStr(v) == v.t = "str"
IsInt(v) == v.t \in {"int", "bool"}

_IMAGE_TYPES == { <<"I", "m", "a", "g", "e">> }
_LABEL_TYPES == { <<"L", "a", "b", "e", "l", "s">>, <<"S", "e", "m", "S", "e", "g">>,
                  <<"M", "u", "l", "t", "i", "L", "a", "b", "e", "l">> }
_VALID_SPLITS == <<"train", "val", "test">>

\* the entry of a split mapping for a layer: null, or an override mapping
Entry(isnull, d) == [null |-> isnull, d |-> d]
NoEntry == [null |-> TRUE, d |-> <<>>]

\* a variant of the merge: a field the base layer has keeps the base value
Overlay_basewins(target, items) ==
    LET step[k \in 0..Len(items)] ==
            IF k = 0 THEN target
            ELSE IF Has(step[k - 1], items[k][1]) THEN step[k - 1]
            ELSE Set(step[k - 1], items[k][1], items[k][2])
    IN  step[Len(items)]

\* for k, v in _cfg.items(): target_layer[k] = v   (lines 29-30)
Overlay(target, items) ==
    LET step[k \in 0..Len(items)] ==
            IF k = 0 THEN target ELSE Set(step[k - 1], items[k][1], items[k][2])
    IN  step[Len(items)]

\* apply_split_layer(layer, target_split, split_cfg), lines 23-32: what it
\* returns (None, or the new mapping) and the base layer as the call leaves
\* it; the assignments are made on the copy of line 28
apply_split_layer(layer, target_split, split_cfg) ==
    LET _cfg == GetOr(GetOr(split_cfg, target_split, <<>>), Get(layer, "name").s, NoEntry)
    IN  IF _cfg.null THEN [ret |-> None, layer |-> layer]
        ELSE [ret |-> Some(Overlay(layer, _cfg.d)), layer |-> layer]

\* cfg.get("split", {})
SplitCfg(c) == IF c.hasSplit THEN c.split ELSE <<>>

\* apply_split(cfg, split), lines 14-20: layers.extend(layer_split) raises
\* for None and takes the keys of a mapping; cfg.layers is then assigned
apply_split(c, split) ==
    LET n == Len(c.layers)
        r(i) == apply_split_layer(c.layers[i].d, split, SplitCfg(c))
        step[k \in 0..n] ==
            IF k = 0 THEN [raised |-> "none", layers |-> <<>>]
            ELSE IF step[k - 1].raised # "none" THEN step[k - 1]
            ELSE IF c.layers[k].kind # "layer"
            THEN [raised |-> "AttributeError", layers |-> step[k - 1].layers]
            ELSE IF r(k).ret = None
            THEN [raised |-> "TypeError", layers |-> step[k - 1].layers]
            ELSE [raised |-> "none",
                  layers |-> step[k - 1].layers \o
                             [j \in 1..Len(r(k).ret[1]) |-> StrNode(Keys(r(k).ret[1])[j])]]
    IN  IF step[n].raised # "none" THEN [raised |-> step[n].raised, cfg |-> c]
        ELSE [raised |-> "none", cfg |-> [c EXCEPT !.layers = step[n].layers]]

\* verify_layer(layer_cfg), lines 35-80
verify_layer(layer_cfg) ==
    LET name == Get(layer_cfg, "name")
        type == Get(layer_cfg, "type")
        missing(reqs) == SelectSeq([i \in 1..Len(reqs) |-> <<"missing", reqs[i]>>],
                                   LAMBDA e : ~Has(layer_cfg, e[2]))
        when(c, e) == IF c THEN <<e>> ELSE <<>>
        kind == IF IsStr(type) /\ type.s \in _IMAGE_TYPES THEN "image"
                ELSE IF IsStr(type) /\ type.s \in _LABEL_TYPES THEN "label"
                ELSE "other"
        errs ==
            missing(<<"name", "type", "path", "file_type">>)
            \o when(~IsStr(name) \/ name.s = <<>>, <<"bad", "name">>)
            \o when(~IsStr(Get(layer_cfg, "path")), <<"bad", "path">>)
            \o when(~IsStr(Get(layer_cfg, "file_type")) \/ Get(layer_cfg, "file_type").s = <<>>,
                    <<"bad", "file_type">>)
            \o (IF kind = "image"
                THEN missing(<<"channels">>)
                     \o when(~IsInt(Get(layer_cfg, "channels")), <<"bad", "channels">>)
                ELSE IF kind = "label"
                THEN missing(<<"classes">>)
                     \o when(~IsInt(Get(layer_cfg, "classes")), <<"bad", "classes">>)
                ELSE <<<<"unknown", "type">>>>)
            \o when(Has(layer_cfg, "pattern") /\ Get(layer_cfg, "pattern").t # "None"
                      /\ ~IsStr(Get(layer_cfg, "pattern")), <<"bad", "pattern">>)
    IN  IF kind = "other" /\ ~Has(layer_cfg, "type")
        THEN [raised |-> "KeyError", valid |-> FALSE, errs |-> <<>>]
        ELSE [raised |-> "none", valid |-> errs = <<>>, errs |-> errs]

\* a variant of the folds: a document that is no list is not wrapped
Folds_nowrap(json) == json.list

\* lines 107-110: a split file that is not a list is taken as a list of one
Folds(json) == IF json.isList THEN json.list ELSE <<json.map>>

JsonList(l) == [isList |-> TRUE, list |-> l, map |-> <<>>]
JsonMap(m) == [isList |-> FALSE, list |-> <<>>, map |-> m]

\* build_file_manager(path, file_type, pattern, file_stack, split,
\* splits_file, splits_index) of vidata.workflows: the file manager of the
\* layer, stacked or not, that includes the names the split file gives the
\* split in the fold.  On the disk of the configurations a scan has one
\* outcome for every order of the directory.
build_file_manager(disk, path, file_type, pattern, file_stack, split, splits_file, splits_index) ==
    \* the arguments are taken by value: {e : a \in {v}} evaluates v once
    CHOOSE r \in
        { CHOOSE q \in
              { [raised |-> o.raised,
                 files |-> IF o.raised # "none" THEN <<>>
                           ELSE filter_files(o.files, a.path, a.include, None)] :
                o \in {CHOOSE x \in (IF a.stack
                           THEN FileManagerStacked_collect_files(disk, a.path, a.type, a.pat, FALSE)
                           ELSE FileManager_collect_files(disk, a.path, a.type, a.pat, FALSE)) :
                           TRUE} } : TRUE :
          a \in {[path |-> IF IsStr(path) THEN path.s ELSE <<>>,
                  type |-> IF IsStr(file_type) THEN file_type.s ELSE <<>>,
                  pat |-> IF IsStr(pattern) THEN Some(pattern.s) ELSE None,
                  stack |-> file_stack.n = 1,
                  include |-> IF splits_file = None \/ split = None THEN None
                              ELSE IF Has(Folds(splits_file[1])[splits_index + 1], split[1])
                              THEN Some(GetOr(Folds(splits_file[1])[splits_index + 1],
                                              split[1], <<>>))
                              ELSE None]} } : TRUE

\* lines 90-95 and 135-143: the file manager built for a layer mapping
FileManagerOf(disk, layer, split, splits_file, splits_index) ==
    build_file_manager(disk, Get(layer, "path"), Get(layer, "file_type"),
                       Get(layer, "pattern"), GetOr(layer, "file_stack", VBool(FALSE)),
                       split, splits_file, splits_index)

\* line 127: layer.get(valid_split, {}).get(layer.name, {}), looked up in
\* the layer itself
SplitDict(c, layer, valid_split) ==
    GetOr(GetOr(layer, valid_split, <<>>), Get(layer, "name").s, <<>>)

\* lines 85-101, for one element of cfg.layers: what the step raises, and
\* what is printed of the layer
LayerReport(node, disk) ==
    IF node.kind # "layer"
    THEN [fails |-> "AttributeError", name |-> <<>>, valid |-> FALSE, errs |-> <<>>,
          files |-> <<>>]
    ELSE CHOOSE r \in
             { CHOOSE q \in
                   { [fails |-> IF vl.raised # "none" THEN vl.raised ELSE fm0.raised,
                      name |-> Get(node.d, "name").s, valid |-> vl.valid,
                      errs |-> vl.errs, files |-> fm0.files] :
                     fm0 \in {IF vl.raised = "none" /\ vl.valid
                              THEN FileManagerOf(disk, node.d, None, None, 0)
                              ELSE [raised |-> "none", files |-> <<>>]} } : TRUE :
               vl \in {verify_layer(node.d)} } : TRUE

\* lines 125-145, for one (fold, split, layer): `i` is the position of the
\* layer in cfg.layers, `explicit` tells that build_file_manager ran
SplitReport(c, disk, fold, valid_split, i, layer, split_file) ==
    CHOOSE r \in
        { IF split_dict = <<>>
             /\ (split_file = None \/ ~Has(Folds(split_file[1])[fold + 1], valid_split))
          THEN [fold |-> fold, split |-> valid_split, layer |-> Get(layer, "name").s,
                i |-> i, explicit |-> FALSE, raised |-> "none", files |-> <<>>]
          ELSE CHOOSE q \in
                   { [fold |-> fold, split |-> valid_split, layer |-> Get(layer, "name").s,
                      i |-> i, explicit |-> TRUE, raised |-> fmS.raised, files |-> fmS.files] :
                     fmS \in {FileManagerOf(disk, Overlay(layer, split_dict),
                                            Some(valid_split), split_file, fold)} } : TRUE :
          split_dict \in {SplitDict(c, layer, valid_split)} } : TRUE

\* lines 84, 101 and 122: layer_is_valid[layer.name] for the i-th layer, a
\* dict keyed by the layer's name, where the last layer of a name wins
layer_is_valid(reports, i) ==
    LET same == {j \in 1..Len(reports) : reports[j].name = reports[i].name}
    IN  reports[CHOOSE j \in same : \A k \in same : k <= j].valid

\* the reports of the layers and of the (fold, split, layer) put together
Report(c, reports, cells) ==
    LET n == Len(reports)
        first == {i \in 1..n : reports[i].fails # "none"}
        layers == [i \in 1..n |->
                      [name |-> reports[i].name, valid |-> reports[i].valid,
                       errs |-> reports[i].errs, files |-> reports[i].files]]
        folds == IF c.split_file = None THEN 1 ELSE Len(Folds(c.split_file[1]))
    IN  IF first # {}
        THEN [raised |-> reports[CHOOSE i \in first : \A j \in first : i <= j].fails,
              quit |-> FALSE, layers |-> <<>>, folds |-> 0, splits |-> {}]
        ELSE IF ~c.hasSplit
        THEN [raised |-> "none", quit |-> TRUE, layers |-> layers, folds |-> 0, splits |-> {}]
        ELSE IF \E x \in cells : x.raised # "none"
        THEN [raised |-> (CHOOSE x \in cells : x.raised # "none").raised,
              quit |-> FALSE, layers |-> layers, folds |-> folds, splits |-> {}]
        ELSE [raised |-> "none", quit |-> FALSE, layers |-> layers, folds |-> folds,
              splits |-> cells]

\* verify_config(cfg), lines 83-145: what it raises, and what it reports of
\* each layer and of each (fold, split, layer)
verify_config(c, disk) ==
    CHOOSE r \in
        { CHOOSE q \in
              { Report(c, reports, cells) :
                cells \in
                  {IF ~c.hasSplit \/ \E i \in 1..Len(reports) : reports[i].fails # "none"
                   THEN {}
                   ELSE {SplitReport(c, disk, fold, _VALID_SPLITS[k], i, c.layers[i].d,
                                     c.split_file) :
                            fold \in 0..((IF c.split_file = None THEN 1
                                          ELSE Len(Folds(c.split_file[1]))) - 1),
                            k \in 1..Len(_VALID_SPLITS),
                            i \in {j \in 1..Len(reports) : layer_is_valid(reports, j)}}} } : TRUE :
          reports \in {[i \in 1..Len(c.layers) |-> LayerReport(c.layers[i], disk)] \o <<>>} } :
        TRUE

\* a variant of the fold index: an index past the folds wraps around
FoldIndex_wrap(json, fold) ==
    [raised |-> "none",
     index |-> (IF fold = None THEN 0 ELSE fold[1]) % Len(Folds(json))]

\* the fold a resolution reads of the split file: index 0 when none is
\* given, FoldIndexOutOfRange for an index the split file has no fold for
FoldIndex(json, fold) ==
    LET index == IF fold = None THEN 0 ELSE fold[1]
    IN  IF index \in 0..(Len(Folds(json)) - 1)
        THEN [raised |-> "none", index |-> index]
        ELSE [raised |-> "FoldIndexOutOfRange", index |-> 0]

\* resolve(layerSpec, splitName, foldIndex?) of the layer config resolver
\* and the file set the config manager builds of it: the override of
\* (split, layer name) merged over the base, 'no explicit split' when
\* neither an override nor the split file names the split, the split
\* file's substrings of (fold, split) as include_names
resolve_split(c, disk, layer, split, fold) ==
    CHOOSE r \in
        { IF c.split_file # None /\ fi.raised # "none"
          THEN [raised |-> fi.raised, explicit |-> FALSE, files |-> <<>>]
          ELSE IF ~Has(GetOr(SplitCfg(c), split, <<>>), Get(layer, "name").s)
                  /\ (c.split_file = None
                        \/ ~Has(Folds(c.split_file[1])[fi.index + 1], split))
          THEN [raised |-> "none", explicit |-> FALSE, files |-> <<>>]
          ELSE CHOOSE q \in
                   { [raised |-> f.raised, explicit |-> TRUE, files |-> f.files] :
                     f \in {FileManagerOf(disk,
                                Overlay(layer, GetOr(GetOr(SplitCfg(c), split, <<>>),
                                                     Get(layer, "name").s, NoEntry).d),
                                Some(split), c.split_file, fi.index)} } : TRUE :
          fi \in {IF c.split_file = None THEN [raised |-> "none", index |-> 0]
                  ELSE FoldIndex(c.split_file[1], fold)} } : TRUE

\* the layer config manager of a configured layer: its name, type,
\* file_type, file_stack (False when absent) and backend (None when absent)
LayerConfigManager(layer) ==
    [name |-> Get(layer, "name").s, type |-> Get(layer, "type"),
     file_type |-> Get(layer, "file_type"),
     file_stack |-> GetOr(layer, "file_stack", VBool(FALSE)),
     backend |-> Get(layer, "backend")]

\* a variant of the construction: of layers that share a name the first is
\* kept, and no layer gives a manager without layers
ConfigManager_lenient(raw) ==
    LET n == Len(raw.layers)
        name(i) == Get(raw.layers[i].d, "name").s
        firsts == SelectSeq([i \in 1..n |-> i],
                            LAMBDA i : \A j \in 1..(i - 1) : name(j) # name(i))
    IN  [raised |-> "none",
         cm |-> Some([layers |-> [k \in 1..Len(firsts) |->
                                     LayerConfigManager(raw.layers[firsts[k]].d)]])]

\* ConfigManager(raw): InvalidConfig for no layer or for a name two layers
\* share, else the layer managers in the order of the raw configuration
ConfigManager(raw) ==
    LET n == Len(raw.layers)
        name(i) == Get(raw.layers[i].d, "name").s
    IN  IF n = 0 \/ \E i \in 1..n : \E j \in (i + 1)..n : name(i) = name(j)
        THEN [raised |-> "InvalidConfig", cm |-> None]
        ELSE [raised |-> "none",
              cm |-> Some([layers |-> [i \in 1..n |-> LayerConfigManager(raw.layers[i].d)]])]

\* a variant of layer_names: the names from the last layer to the first
layer_names_reversed(m) ==
    [i \in 1..Len(m.layers) |-> m.layers[Len(m.layers) + 1 - i].name]

\* ConfigManager.layer_names(): the names in construction order
layer_names(m) == [i \in 1..Len(m.layers) |-> m.layers[i].name]

\* ConfigManager.layer(name): the layer manager of that name, or UnknownLayer
ConfigManager_layer(m, name) ==
    IF \E i \in 1..Len(m.layers) : m.layers[i].name = name
    THEN [raised |-> "none",
          ret |-> Some(m.layers[CHOOSE i \in 1..Len(m.layers) : m.layers[i].name = name])]
    ELSE [raised |-> "UnknownLayer", ret |-> None]

\* the configurations: one or two layers over the directory /r, the split
\* overrides and the split file
CfgDisk ==
    { DirR \o <<<<"2", "_", "0", ".", "e">>>>, DirR \o <<<<"2", "_", "1", ".", "e">>>>,
      DirR \o <<<<"1", "0", "_", "0", ".", "e">>>>, DirRS \o <<<<"2", "_", "0", ".", "e">>>> }

Images ==
    << <<"name", VStr(<<"I">>)>>, <<"type", VStr(<<"I", "m", "a", "g", "e">>)>>,
       <<"path", VStr(<<"/", "r">>)>>, <<"pattern", VStr(<<"2", "*">>)>>,
       <<"file_type", VStr(<<".", "e">>)>>, <<"channels", VInt(3)>>,
       <<"file_stack", VBool(FALSE)>> >>
MLLabels ==
    << <<"name", VStr(<<"L">>)>>, <<"type", VStr(<<"M", "u", "l", "t", "i", "L", "a", "b", "e", "l">>)>>,
       <<"path", VStr(<<"/", "r">>)>>, <<"file_stack", VBool(TRUE)>>,
       <<"file_type", VStr(<<".", "e">>)>>, <<"classes", VInt(5)>> >>
NoChannels ==
    << <<"name", VStr(<<"X">>)>>, <<"type", VStr(<<"I", "m", "a", "g", "e">>)>>,
       <<"path", VStr(<<"/", "r">>)>>, <<"file_type", VStr(<<".", "e">>)>> >>
\* a layer without channels that bears the name of the image layer
Shadowed == [NoChannels EXCEPT ![1] = <<"name", VStr(<<"I">>)>>]
LayerLists ==
    { <<LayerNode(Images)>>, <<LayerNode(Images), LayerNode(MLLabels)>>,
      <<LayerNode(NoChannels), LayerNode(Images)>>,
      <<LayerNode(Shadowed), LayerNode(Images)>> }

ValPattern == << <<"pattern", VStr(<<"1", "*">>)>> >>
SplitCfgs ==
    { <<>>,
      << <<"train", << <<<<"I">>, Entry(TRUE, <<>>)>>, <<<<"L">>, Entry(TRUE, <<>>)>> >> >>,
         <<"val", << <<<<"I">>, Entry(FALSE, ValPattern)>>, <<<<"L">>, Entry(FALSE, ValPattern)>> >> >> >>,
      << <<"val", << <<<<"I">>, Entry(FALSE, <<>>)>> >> >> >>,
      << <<"val", << <<<<"I">>, Entry(FALSE, << <<"path", VStr(<<"/", "r", "/", "s">>)>>,
                                                <<"backend", VNone>> >>)>> >> >> >> }

Fold0 == << <<"train", <<<<"_", "1">>>> >>, <<"val", <<<<"_", "0">>>> >> >>
Fold1 == << <<"train", <<<<"_", "0">>, <<"1", "0">>>> >> >>
SplitFiles == { None, Some(JsonMap(Fold0)), Some(JsonList(<<Fold0>>)), Some(JsonList(<<Fold0, Fold1>>)) }

Configs ==
    { [layers |-> l, hasSplit |-> FALSE, split |-> <<>>, split_file |-> None] : l \in LayerLists }
    \cup { [layers |-> l, hasSplit |-> TRUE, split |-> sp, split_file |-> f] :
              l \in LayerLists, sp \in SplitCfgs, f \in SplitFiles }

\* apply_split_layer(cfg.layers[i], split, cfg.get("split", {}))
ApplySplitLayer ==
    \E i \in 1..Len(cfg.layers), split \in Range(_VALID_SPLITS) :
        IF cfg.layers[i].kind # "layer"
        THEN /\ out' = Some([op |-> "apply_split_layer", i |-> i, split |-> split,
                             raised |-> "AttributeError", ret |-> None])
             /\ UNCHANGED <<cfg, cfg0, cm, fmVars, regVars, ioVars>>
        ELSE LET r == apply_split_layer(cfg.layers[i].d, split, SplitCfg(cfg))
             IN  /\ out' = Some([op |-> "apply_split_layer", i |-> i, split |-> split,
                                 raised |-> "none", ret |-> r.ret])
                 /\ cfg' = [cfg EXCEPT !.layers[i] = LayerNode(r.layer)]
                 /\ UNCHANGED <<cfg0, cm, fmVars, regVars, ioVars>>

\* apply_split(cfg, split)
ApplySplit ==
    \E split \in Range(_VALID_SPLITS) :
        LET r == apply_split(cfg, split)
        IN  /\ out' = Some([op |-> "apply_split", i |-> 0, split |-> split,
                            raised |-> r.raised, ret |-> None])
            /\ cfg' = r.cfg
            /\ UNCHANGED <<cfg0, cm, fmVars, regVars, ioVars>>

\* verify_config(cfg)
VerifyConfig ==
    /\ out' = Some([op |-> "verify_config", i |-> 0, split |-> "", raised |-> "none",
                    ret |-> None, report |-> verify_config(cfg, fs)])
    /\ UNCHANGED <<cfg, cfg0, cm, fmVars, regVars, ioVars>>

\* the fold indexes a resolution is asked for: none, or 0, 1, 2
FoldArgs == {None, Some(0), Some(1), Some(2)}
FoldArgsOf(c) ==
    IF c.split_file # None /\ c.split_file[1].isList THEN FoldArgs \ {None} ELSE FoldArgs

\* layer.file_manager(split, fold) of the config manager, on a layer of the
\* configuration as it was loaded; without a fold index for a split file
\* that is a single mapping or for no split file
ResolveSplit ==
    /\ cfg = cfg0
    /\ \E i \in 1..Len(cfg.layers), split \in Range(_VALID_SPLITS), fold \in FoldArgsOf(cfg) :
           LET r == resolve_split(cfg, fs, cfg.layers[i].d, split, fold)
           IN  out' = Some([op |-> "file_manager", i |-> i, split |-> split,
                            raised |-> r.raised, ret |-> None, fold |-> fold,
                            explicit |-> r.explicit, files |-> r.files])
    /\ UNCHANGED <<cfg, cfg0, cm, fmVars, regVars, ioVars>>

\* the raw configurations a config manager is built of: the layers of
\* simple_config in several orders, no layer, and layers that share a name
TImages ==
    << <<"name", VStr(<<"I">>)>>, <<"type", VStr(<<"i", "m", "a", "g", "e">>)>>,
       <<"path", VStr(<<"/", "r">>)>>, <<"pattern", VStr(<<"2", "*">>)>>,
       <<"file_type", VStr(<<".", "e">>)>>, <<"channels", VInt(3)>>,
       <<"file_stack", VBool(FALSE)>>, <<"backend", VNone>> >>
TLabels ==
    << <<"name", VStr(<<"S">>)>>, <<"type", VStr(<<"s", "e", "m", "s", "e", "g">>)>>,
       <<"path", VStr(<<"/", "r">>)>>, <<"pattern", VStr(<<"2", "*">>)>>,
       <<"file_type", VStr(<<".", "e">>)>>, <<"classes", VInt(5)>>,
       <<"backend", VNone>> >>
TMLLabels ==
    << <<"name", VStr(<<"L">>)>>,
       <<"type", VStr(<<"m", "u", "l", "t", "i", "l", "a", "b", "e", "l">>)>>,
       <<"path", VStr(<<"/", "r">>)>>, <<"pattern", VStr(<<"2", "*">>)>>,
       <<"file_stack", VBool(TRUE)>>, <<"file_type", VStr(<<".", "e">>)>>,
       <<"classes", VInt(5)>>, <<"backend", VNone>> >>
RawLayerLists ==
    { <<LayerNode(TImages), LayerNode(TLabels), LayerNode(TMLLabels)>>,
      <<LayerNode(TMLLabels), LayerNode(TImages)>>,
      <<LayerNode(TLabels)>>,
      <<>>,
      <<LayerNode(TImages), LayerNode(TImages)>>,
      <<LayerNode(TImages), LayerNode(TLabels), LayerNode(Set(TMLLabels, "name", VStr(<<"I">>)))>> }
RawConfigs ==
    { [layers |-> l, hasSplit |-> FALSE, split |-> <<>>, split_file |-> None] :
         l \in RawLayerLists }
    \cup { [layers |-> l, hasSplit |-> TRUE, split |-> sp, split_file |-> f] :
              l \in RawLayerLists, sp \in SplitCfgs, f \in SplitFiles }

\* the names a layer is looked up by
LookupNames == { <<"I">>, <<"S">>, <<"L">>, <<"Z">> }

\* cm = ConfigManager(raw)
NewConfigManager ==
    /\ cm = None /\ out = None
    /\ LET r == ConfigManager(cfg)
       IN  /\ cm' = r.cm
           /\ out' = Some([op |-> "ConfigManager", raised |-> r.raised])
    /\ UNCHANGED <<cfg, cfg0, fmVars, regVars, ioVars>>

\* cm.layer_names()
LayerNames ==
    /\ cm # None
    /\ out' = Some([op |-> "layer_names", raised |-> "none", names |-> layer_names(cm[1])])
    /\ UNCHANGED <<cfg, cfg0, cm, fmVars, regVars, ioVars>>

\* cm.layer(name)
Layer ==
    /\ cm # None
    /\ \E name \in LookupNames :
           LET r == ConfigManager_layer(cm[1], name)
           IN  out' = Some([op |-> "layer", raised |-> r.raised, name |-> name,
                            ret |-> r.ret])
    /\ UNCHANGED <<cfg, cfg0, cm, fmVars, regVars, ioVars>>

\* the layer mappings verify_layer is called with: every choice of the
\* fields below, a field being absent or having one of the values, and the
\* layers of simple_config
Field(k, values) == {<<>>} \cup {<< <<k, v>> >> : v \in values}
FieldLayers ==
    { n \o t \o p \o f \o c \o k \o g :
        n \in Field("name", {VStr(<<>>), VStr(<<"I">>), VInt(1)}),
        t \in Field("type", {VStr(<<"I", "m", "a", "g", "e">>), VStr(<<"S", "e", "m", "S", "e", "g">>),
                             VStr(<<"i", "m", "a", "g", "e">>), VNone}),
        p \in Field("path", {VStr(<<"/", "r">>), VInt(1)}),
        f \in Field("file_type", {VStr(<<".", "e">>), VStr(<<>>)}),
        c \in Field("channels", {VInt(3), VBool(TRUE), VStr(<<"3">>)}),
        k \in Field("classes", {VInt(5), VStr(<<"5">>)}),
        g \in Field("pattern", {VNone, VStr(<<"2", "*">>), VInt(1)}) }
LayerInputs == FieldLayers \cup {TImages, TLabels, TMLLabels, Images, MLLabels}

\* verify_layer(layer_cfg); a behaviour follows one call
VerifyLayer ==
    /\ out = None
    /\ \E layer_cfg \in LayerInputs :
           LET r == verify_layer(layer_cfg)
           IN  out' = Some([op |-> "verify_layer", layer |-> layer_cfg, raised |-> r.raised,
                            valid |-> r.valid, errs |-> r.errs])
    /\ UNCHANGED <<cfg, cfg0, cm, fmVars, regVars, ioVars>>

CfgInit ==
    /\ cfg \in Configs
    /\ cfg0 = cfg
    /\ out = None
    /\ cm = None

\* outside the configuration specification: no configuration is loaded
NoCfg ==
    /\ cfg = [layers |-> <<>>, hasSplit |-> FALSE, split |-> <<>>, split_file |-> None]
    /\ cfg0 = cfg
    /\ out = None
    /\ cm = None

IOInit ==
    /\ store = <<>>
    /\ io = None
    /\ nio = 0

RegInit ==
    /\ loaders = <<>>
    /\ writers = <<>>
    /\ imported = "no"
    /\ nreg = 0
    /\ regLog = <<>>
    /\ resolved = None

FMInit ==
    /\ fs \in {S \in SUBSET Universe : Cardinality(S) <= MaxFiles}
    /\ call = None
    /\ fm = None
    /\ raised = "none"

\* the file managers, on a registry left as it starts
InitFM == FMInit /\ RegInit /\ IOInit /\ NoCfg
NextFM == NewFileManager \/ NewFileManagerStacked
SpecFM == InitFM /\ [][NextFM]_vars

\* the name operations of a file manager
InitName ==
    /\ fs \in SUBSET NameUniverse
    /\ call = None /\ fm = None /\ raised = "none"
    /\ RegInit /\ IOInit /\ NoCfg
NextName == NewFileManagerForNames \/ NameFromPath \/ PathFromName
SpecName == InitName /\ [][NextName]_vars

\* the registry, on an empty disk
InitReg == RegInit /\ IOInit /\ NoCfg /\ fs = {} /\ call = None /\ fm = None /\ raised = "none"
NextReg == ImportNumpyIO \/ RegisterLoader \/ RegisterWriter \/ ResolveLoader \/ ResolveWriter
SpecReg == InitReg /\ [][NextReg]_vars

\* the adapters and the loaders and writers over them, on an empty disk
InitIO == RegInit /\ IOInit /\ NoCfg /\ fs = {} /\ call = None /\ fm = None /\ raised = "none"
NextIO ==
    \/ ImportNumpyIO
    \/ SaveNpy \/ SaveNpz \/ LoadNpy \/ LoadNpz
    \/ WriterSave \/ LoaderLoad \/ StackedSave \/ StackedLoad
SpecIO == InitIO /\ [][NextIO]_vars

\* the configuration calls, on the disk of the configurations
InitCfg ==
    /\ RegInit /\ IOInit /\ CfgInit
    /\ fs = CfgDisk /\ call = None /\ fm = None /\ raised = "none"
NextCfg == ApplySplitLayer \/ ApplySplit \/ VerifyConfig \/ ResolveSplit
SpecCfg == InitCfg /\ [][NextCfg]_vars

\* the verification of single layer mappings
InitLayer ==
    /\ RegInit /\ IOInit /\ NoCfg
    /\ fs = {} /\ call = None /\ fm = None /\ raised = "none"
NextLayer == VerifyLayer
SpecLayer == InitLayer /\ [][NextLayer]_vars

\* the config manager, built of a raw configuration and asked for its layers
InitCM ==
    /\ RegInit /\ IOInit
    /\ cfg \in RawConfigs /\ cfg0 = cfg /\ out = None /\ cm = None
    /\ fs = CfgDisk /\ call = None /\ fm = None /\ raised = "none"
NextCM == NewConfigManager \/ LayerNames \/ Layer
SpecCM == InitCM /\ [][NextCM]_vars

(***************************************************************************)
(* Vocabulary of the properties, stated on strings and on the disk and     *)
(* not with the operators of the code above.                               *)
(***************************************************************************)
AbsoluteRoot(path) == path # <<>> /\ Head(path) = "/"

\* the root as the caller wrote it, as a path string
RootStr(path) == PathStr(ParsePath(path))

\* the directory on disk a root stands for
RootDir(path) == IF AbsoluteRoot(path) THEN ParsePath(path) ELSE CWD \o ParsePath(path)

\* what follows "<root>/" in the string of a path under the root
RelOf(f, path) == SubSeq(PathStr(f), Len(RootStr(path)) + 2, Len(PathStr(f)))

Parent(p) == SubSeq(p, 1, Len(p) - 1)

HasSep(pattern) == pattern # None /\ "/" \in Range(pattern[1])
HasStar(pattern) == pattern # None /\ "*" \in Range(pattern[1])

NoDup(seq) == \A i \in 1..Len(seq) : \A j \in 1..Len(seq) : seq[i] = seq[j] => i = j

AllDigits(s) == s # <<>> /\ \A i \in 1..Len(s) : s[i] \in Digits

\* the pairs <<v1, v2>> such that n1 and n2 are the same text around one
\* whole run of digits, of value v1 in n1 and v2 in n2
IntPairs(n1, n2) ==
    { <<IntOf(SubSeq(n1, a + 1, a + l1)), IntOf(SubSeq(n2, a + 1, a + l2))>> :
        <<a, l1, l2>> \in
            { t \in (0..Len(n1)) \X (1..Len(n1)) \X (1..Len(n2)) :
                /\ t[1] + t[2] <= Len(n1) /\ t[1] + t[3] <= Len(n2)
                /\ SubSeq(n1, 1, t[1]) = SubSeq(n2, 1, t[1])
                /\ AllDigits(SubSeq(n1, t[1] + 1, t[1] + t[2]))
                /\ AllDigits(SubSeq(n2, t[1] + 1, t[1] + t[3]))
                /\ SubSeq(n1, t[1] + t[2] + 1, Len(n1)) = SubSeq(n2, t[1] + t[3] + 1, Len(n2))
                /\ (t[1] > 0 => n1[t[1]] \notin Digits)
                /\ (t[1] + t[2] < Len(n1) => n1[t[1] + t[2] + 1] \notin Digits) } }

\* the name without its last extension: name = base.ext with ext free of dots
IsBaseOf(b, name) ==
    IF \E k \in 2..(Len(name) - 1) : name[k] = "." /\ \A j \in (k + 1)..Len(name) : name[j] # "."
    THEN \E k \in 2..(Len(name) - 1) :
            /\ name[k] = "." /\ b = SubSeq(name, 1, k - 1)
            /\ \A j \in (k + 1)..Len(name) : name[j] # "."
    ELSE b = name

\* s is b cut before its last underscore (b itself when it has none)
CutAtLastUnderscore(s, b) ==
    IF "_" \in Range(b)
    THEN \E k \in 1..Len(b) :
            /\ b[k] = "_" /\ s = SubSeq(b, 1, k - 1)
            /\ \A j \in (k + 1)..Len(b) : b[j] # "_"
    ELSE s = b

\* s is b without its trailing _<digits> group (b itself when it has none)
CutDigitGroup(s, b) ==
    IF \E k \in 1..(Len(b) - 1) : b[k] = "_" /\ AllDigits(SubSeq(b, k + 1, Len(b)))
    THEN \E k \in 1..(Len(b) - 1) :
            b[k] = "_" /\ AllDigits(SubSeq(b, k + 1, Len(b))) /\ s = SubSeq(b, 1, k - 1)
    ELSE s = b

\* the stem the collapsing rule of the code gives a file name
IsStemOf(s, name) == \E k \in 0..Len(name) : IsBaseOf(SubSeq(name, 1, k), name) /\ CutAtLastUnderscore(s, SubSeq(name, 1, k))

\* the stem "strip exactly the trailing _<digits> group" gives a file name
IsDigitStemOf(s, name) == \E k \in 0..Len(name) : IsBaseOf(SubSeq(name, 1, k), name) /\ CutDigitGroup(s, SubSeq(name, 1, k))

\* a name of the form <stem>_<digits><ext>, with a dot-free stem
StackFormat(name, ext) ==
    \E k \in 2..Len(name) :
        /\ name[k] = "_" /\ "." \notin Range(SubSeq(name, 1, k - 1))
        /\ \E d \in 1..(Len(name) - k) :
              AllDigits(SubSeq(name, k + 1, k + d)) /\ SubSeq(name, k + d + 1, Len(name)) = ext

Constructed == call # None /\ fm # None
Stacked == call # None /\ call[1].cls = "FileManagerStacked"
Searched == call # None /\ raised # "NotImplementedError" /\ call[1].path # <<>> /\ call[1].file_type # <<>>

Included(rel, names) == names = None \/ \E i \in 1..Len(names[1]) : Contains(names[1][i], rel)
Excluded(rel, names) == names # None /\ \E i \in 1..Len(names[1]) : Contains(names[1][i], rel)

(***************************************************************************)
(* C1.  A file collect_files found is in the final list exactly when       *)
(* (include_names is None or its path relative to the root contains one    *)
(* of the include substrings) and (exclude_names is None or that relative  *)
(* path contains none of the exclude substrings); the final list holds     *)
(* nothing else.                                                           *)
(***************************************************************************)
C1_FilterContract ==
    Constructed =>
        /\ Range(fm[1].files) \subseteq Range(call[1].found)
        /\ \A f \in Range(call[1].found) :
              (f \in Range(fm[1].files)) <=>
                  /\ Included(RelOf(f, call[1].path), call[1].include_names)
                  /\ ~Excluded(RelOf(f, call[1].path), call[1].exclude_names)

\* a file matching an include and an exclude substring is dropped, another is
\* kept
C1_Witness ==
    /\ Constructed
    /\ call[1].include_names # None /\ call[1].exclude_names # None
    /\ fm[1].files # <<>>
    /\ \E f \in Range(call[1].found) :
          /\ f \notin Range(fm[1].files)
          /\ Included(RelOf(f, call[1].path), call[1].include_names)
          /\ Excluded(RelOf(f, call[1].path), call[1].exclude_names)

(***************************************************************************)
(* C2.  The final list is in natural order of the file names: of two       *)
(* entries whose names differ only in one embedded integer, the one with   *)
(* the smaller integer comes first.                                        *)
(***************************************************************************)
C2_NaturalOrder ==
    Constructed =>
        \A i \in 1..Len(fm[1].files) : \A j \in 1..Len(fm[1].files) :
            \A pr \in IntPairs(Name(fm[1].files[i]), Name(fm[1].files[j])) :
                pr[1] < pr[2] => i < j

\* a filtered, recursive list with 2 before 10
C2_Witness ==
    /\ Constructed /\ call[1].recursive /\ call[1].exclude_names # None
    /\ Len(call[1].found) > Len(fm[1].files)
    /\ \E i \in 1..Len(fm[1].files) : \E j \in 1..Len(fm[1].files) :
          i < j /\ <<2, 10>> \in IntPairs(Name(fm[1].files[i]), Name(fm[1].files[j]))

DepthOK(rel) == call[1].recursive \/ Len(rel) = 1

ExpectedLocated ==
    LET c == call[1]
        dir == RootDir(c.path)
        under == {f \in fs : IsRelativeTo(f, dir) /\ Len(f) > Len(dir)}
        rel(f) == SubSeq(f, Len(dir) + 1, Len(f))
        deep == IF c.recursive THEN <<"*", "*", "/">> ELSE <<>>
        verbatim == deep \o c.pattern[1] \o c.file_type
        starLeft == deep \o <<"*">> \o c.pattern[1] \o c.file_type
    IN  { ParsePath(c.path) \o rel(f) :
            f \in { g \in under :
                      IF c.pattern = None
                      THEN DepthOK(rel(g)) /\ EndsWith(Name(g), c.file_type)
                      ELSE IF ~HasStar(c.pattern) /\ ~HasSep(c.pattern)
                      THEN DepthOK(rel(g)) /\ EndsWith(Name(g), c.pattern[1] \o c.file_type)
                      ELSE IF ~HasStar(c.pattern)
                      THEN GlobMatch(ParsePath(starLeft), rel(g))
                      ELSE GlobMatch(ParsePath(verbatim), rel(g)) } }

(***************************************************************************)
(* C3 (as amended).  With no pattern every file with the extension is      *)
(* located; a pattern without "*" gets a "*" on its left, so that it is a  *)
(* required ending of the name before the extension; a pattern with "*"   *)
(* is used as it is, followed by the extension.                            *)
(***************************************************************************)
C3_PatternHandling ==
    Searched => Range(call[1].located) = ExpectedLocated

\* the original wording: a pattern without "*" is a required prefix of the name
C3_PatternIsPrefix ==
    Searched /\ call[1].pattern # None /\ ~HasStar(call[1].pattern) =>
        \A f \in Range(call[1].located) : StartsWith(Name(f), call[1].pattern[1])

\* a pattern without "*" locates a file that ends, and does not start, with it
C3_Witness ==
    /\ Searched /\ call[1].pattern # None /\ ~HasStar(call[1].pattern)
    /\ \E f \in Range(call[1].located) :
          /\ ~StartsWith(Name(f), call[1].pattern[1])
          /\ EndsWith(Name(f), call[1].pattern[1] \o call[1].file_type)

(***************************************************************************)
(* C4.  A constructor call with an empty root or an empty extension        *)
(* raises nothing and builds a manager with an empty file list, whatever   *)
(* the pattern, the recursive flag and the filters, for both classes.      *)
(***************************************************************************)
C4_EmptyArgsEmptyResult ==
    call # None /\ (call[1].path = <<>> \/ call[1].file_type = <<>>) =>
        raised = "none" /\ fm # None /\ fm[1].files = <<>>

\* an empty root over a working directory that holds a file with the
\* extension, with a pattern glob refuses, filters, stacked and recursive
C4_Witness ==
    /\ call # None /\ call[1].path = <<>> /\ call[1].file_type # <<>>
    /\ \E f \in fs : Parent(f) = CWD /\ EndsWith(Name(f), call[1].file_type)
    /\ call[1].pattern = Some(<<"/", "*">>)
    /\ call[1].include_names # None /\ call[1].exclude_names # None
    /\ call[1].recursive /\ Stacked
    /\ fm # None /\ fm[1].files = <<>>

(***************************************************************************)
(* C5 (as amended).  Every entry of the file list is the root as the       *)
(* caller passed it followed by a path relative to it: it is absolute      *)
(* exactly when the root is absolute.                                      *)
(***************************************************************************)
C5_EntriesUnderGivenRoot ==
    Constructed =>
        \A f \in Range(fm[1].files) :
            /\ StartsWith(PathStr(f), RootStr(call[1].path) \o <<"/">>)
            /\ IsAbsolute(f) <=> AbsoluteRoot(call[1].path)

\* the original wording: every entry is absolute
C5_EntriesAbsolute == Constructed => \A f \in Range(fm[1].files) : IsAbsolute(f)

\* a relative root with a file under it
C5_Witness ==
    /\ Constructed /\ ~AbsoluteRoot(call[1].path) /\ fm[1].files # <<>>
    /\ \E f \in Range(fm[1].files) : ~IsAbsolute(f)

ImmediateChild(f) == Len(f) = Len(ParsePath(call[1].path)) + 1

(***************************************************************************)
(* C6 (as amended).  With recursive=false and a pattern without a path     *)
(* separator only immediate children of the root are located; with         *)
(* recursive=true the matching files of every subdirectory are located     *)
(* too.                                                                    *)
(***************************************************************************)
C6_RecursiveFlag ==
    Searched /\ ~HasSep(call[1].pattern) =>
        /\ ~call[1].recursive => \A f \in Range(call[1].located) : ImmediateChild(f)
        /\ call[1].recursive =>
              \A g \in fs :
                  /\ IsRelativeTo(g, RootDir(call[1].path)) /\ Len(g) > Len(RootDir(call[1].path))
                  /\ FnMatch(GlobPattern(call[1].pattern) \o call[1].file_type, Name(g))
                  => \E f \in Range(call[1].located) :
                        Len(f) - Len(ParsePath(call[1].path)) = Len(g) - Len(RootDir(call[1].path))
                        /\ Name(f) = Name(g)

\* the original wording: immediate children only, for every pattern
C6_ImmediateChildrenOnly ==
    Searched /\ ~call[1].recursive => \A f \in Range(call[1].located) : ImmediateChild(f)

\* a recursive search that locates a file of a subdirectory
C6_Witness ==
    /\ Searched /\ ~HasSep(call[1].pattern) /\ call[1].recursive
    /\ \E f \in Range(call[1].located) : ~ImmediateChild(f)

(***************************************************************************)
(* C7 (as amended).  The stacked manager derives each stem by removing     *)
(* the name's last extension and then everything from the last underscore  *)
(* on, digits or not; a name without underscore keeps its extension-less   *)
(* name; construction fails with ValueError exactly when a stem is empty.  *)
(***************************************************************************)
C7_StemRule ==
    Stacked /\ Searched =>
        /\ raised = "ValueError" <=> \E f \in Range(call[1].located) : IsStemOf(<<>>, Name(f))
        /\ raised = "none" =>
              /\ \A f \in Range(call[1].located) : \E g \in Range(call[1].found) :
                    Parent(g) = Parent(f) /\ IsStemOf(Name(g), Name(f))
              /\ \A g \in Range(call[1].found) : \E f \in Range(call[1].located) :
                    Parent(g) = Parent(f) /\ IsStemOf(Name(g), Name(f))

\* the original wording: exactly the trailing _<digits> group is stripped
C7_DigitGroupOnly ==
    Stacked /\ Searched /\ raised = "none" =>
        \A f \in Range(call[1].located) : \E g \in Range(call[1].found) :
            Parent(g) = Parent(f) /\ IsDigitStemOf(Name(g), Name(f))

\* a name whose last underscore is not followed by digits, one of the stack
\* format and one without underscore
C7_Witness ==
    /\ Stacked /\ Searched /\ raised = "none"
    /\ \E f \in Range(call[1].located) : ~\E g \in Range(call[1].found) : IsDigitStemOf(Name(g), Name(f))
    /\ \E f \in Range(call[1].located) : StackFormat(Name(f), call[1].file_type)
    /\ \E f \in Range(call[1].located) : "_" \notin Range(Name(f))

NatOrdered(seq) ==
    \A i \in 1..Len(seq) : \A j \in (i + 1)..Len(seq) :
        ~KeyLess(natsort_key(Name(seq[j])), natsort_key(Name(seq[i])))

\* the samples of files named <stem>_<digits><ext>: directory and stem
Samples(files) ==
    UNION { { <<Parent(f), SubSeq(Name(f), 1, k)>> :
                k \in {n \in 0..Len(Name(f)) : IsDigitStemOf(SubSeq(Name(f), 1, n), Name(f))} } :
            f \in Range(files) }

(***************************************************************************)
(* C8.  The stacked manager's list holds one entry per distinct stem of    *)
(* the located files: no duplicates, in natural order, as many entries as  *)
(* samples when the files are named <stem>_<digits><ext>, and empty for    *)
(* an empty located list.                                                  *)
(***************************************************************************)
C8_OnePerStem ==
    Stacked /\ Constructed =>
        /\ NoDup(call[1].found) /\ NoDup(fm[1].files)
        /\ NatOrdered(call[1].found) /\ NatOrdered(fm[1].files)
        /\ call[1].located = <<>> => call[1].found = <<>> /\ fm[1].files = <<>>
        /\ (\A f \in Range(call[1].located) : StackFormat(Name(f), call[1].file_type))
              => Len(call[1].found) = Cardinality(Samples(call[1].located))

\* two samples, one of them stored as two files
C8_Witness ==
    /\ Stacked /\ Constructed
    /\ \A f \in Range(call[1].located) : StackFormat(Name(f), call[1].file_type)
    /\ Len(call[1].located) = 3 /\ Len(call[1].found) = 2 /\ Len(fm[1].files) = 2

(***************************************************************************)
(* Vocabulary of the registry properties, stated on the history regLog.    *)
(***************************************************************************)
TableOf(t) == IF t = "loader" THEN loaders ELSE writers

SamePair(c, d) == c.table = d.table /\ c.kind = d.kind /\ c.ext = d.ext
SameTriple(c, d) == SamePair(c, d) /\ c.backend = d.backend

\* the bindings the successful calls of the history made in table t, in order
BindingsMade(t) ==
    LET made == SelectSeq(regLog, LAMBDA e : e.ok /\ e.call.table = t)
    IN  [i \in 1..Len(made) |->
            [kind |-> made[i].call.kind, ext |-> made[i].call.ext,
             backend |-> made[i].call.backend, fn |-> made[i].call.fn]]

(***************************************************************************)
(* C9.  A resolve call that names no backend returns the function of the   *)
(* backend that was registered first for its (kind, extension), whatever   *)
(* was registered before or after: every such call returns the same.       *)
(***************************************************************************)
C9_DefaultIsFirstRegistered ==
    resolved # None /\ resolved[1].asked = None /\ resolved[1].res.outcome = "ok" =>
        \E i \in 1..Len(regLog) :
            /\ regLog[i].ok /\ SamePair(regLog[i].call, resolved[1])
            /\ \A j \in 1..(i - 1) : ~(regLog[j].ok /\ SamePair(regLog[j].call, resolved[1]))
            /\ resolved[1].res.fn = Some(regLog[i].call.fn)
            /\ resolved[1].res.backend = Some(regLog[i].call.backend)

\* three backends bound for the pair, and the default is not the last one
C9_Witness ==
    /\ resolved # None /\ resolved[1].asked = None /\ resolved[1].res.outcome = "ok"
    /\ Cardinality({regLog[i].call.backend : i \in {k \in 1..Len(regLog) :
            regLog[k].ok /\ SamePair(regLog[k].call, resolved[1])}}) = 3
    /\ \E i \in 1..Len(regLog) : \E j \in (i + 1)..Len(regLog) :
          /\ regLog[i].ok /\ SamePair(regLog[i].call, resolved[1])
          /\ regLog[j].ok /\ SamePair(regLog[j].call, resolved[1])
          /\ resolved[1].res.fn = Some(regLog[i].call.fn)

(***************************************************************************)
(* C10.  A register call for a triple that is already bound is an error    *)
(* and leaves the binding as it was; a call for a new triple, also of a    *)
(* (kind, extension) bound under other backends, succeeds and adds its     *)
(* binding after the existing ones, which stay as they were.               *)
(***************************************************************************)
C10_Registration ==
    /\ \A i \in 1..Len(regLog) :
          regLog[i].ok <=>
              ~\E j \in 1..(i - 1) : regLog[j].ok /\ SameTriple(regLog[j].call, regLog[i].call)
    /\ loaders = BindingsMade("loader")
    /\ writers = BindingsMade("writer")

\* a refused second registration of a triple, and a second backend added
C10_Witness ==
    /\ \E i \in 1..Len(regLog) : \E j \in (i + 1)..Len(regLog) :
          /\ regLog[i].ok /\ ~regLog[j].ok /\ SameTriple(regLog[i].call, regLog[j].call)
          /\ \E k \in 1..Len(TableOf(regLog[i].call.table)) :
                TableOf(regLog[i].call.table)[k].fn = regLog[i].call.fn
    /\ \E i \in 1..Len(regLog) : \E j \in (i + 1)..Len(regLog) :
          /\ regLog[i].ok /\ regLog[j].ok /\ SamePair(regLog[i].call, regLog[j].call)
          /\ regLog[i].call.backend # regLog[j].call.backend

(***************************************************************************)
(* C11.  A resolve call fails with UnsupportedFormat exactly when no       *)
(* registration before it bound its (kind, extension) under any backend; a *)
(* call that                                                               *)
(* names a backend fails with UnknownBackend exactly when the pair is      *)
(* bound and the named triple is not, and a call that names a backend and  *)
(* succeeds returns the function registered for that very backend.         *)
(***************************************************************************)
C11_ResolveErrors ==
    resolved # None =>
        LET r == resolved[1]
            pairBound == \E i \in 1..r.at : regLog[i].ok /\ SamePair(regLog[i].call, r)
            tripleAt(i) == /\ regLog[i].ok /\ SamePair(regLog[i].call, r)
                           /\ r.asked # None /\ regLog[i].call.backend = r.asked[1]
        IN  /\ r.res.outcome = "UnsupportedFormat" <=> ~pairBound
            /\ r.res.outcome = "UnknownBackend" <=>
                  r.asked # None /\ pairBound /\ ~\E i \in 1..r.at : tripleAt(i)
            /\ r.res.outcome \in {"ok", "UnsupportedFormat", "UnknownBackend"}
            /\ r.res.outcome # "ok" => r.res.fn = None
            /\ r.asked # None /\ r.res.outcome = "ok" =>
                  \E i \in 1..r.at : tripleAt(i) /\ r.res.fn = Some(regLog[i].call.fn)

\* a backend is asked for that is not bound for the pair, while two other
\* backends are
C11_Witness ==
    /\ resolved # None /\ resolved[1].asked # None
    /\ resolved[1].res.outcome = "UnknownBackend"
    /\ Cardinality({regLog[i].call.backend : i \in {k \in 1..resolved[1].at :
            regLog[k].ok /\ SamePair(regLog[k].call, resolved[1])}}) = 2

(***************************************************************************)
(* Vocabulary of the adapter properties: the save call that wrote the file *)
(* a load call reads, when that call was given the very path read.         *)
(***************************************************************************)
Loaded(ops) == io # None /\ io[1].op \in ops
ReadsBack(ops) ==
    /\ io[1].path \in DOMAIN store
    /\ store[io[1].path].by.op \in ops
    /\ store[io[1].path].by.path = io[1].path
SavedData == store[io[1].path].by.data
EmptyMetadata == Dict(<<>>)

(***************************************************************************)
(* C12.  load_npy and load_npz return, whenever they return, an empty      *)
(* metadata mapping and never None; save_npy and save_npz take a metadata  *)
(* argument and store nothing of it: an array saved by save_npy to a path  *)
(* ending in ".npy" is loaded back by load_npy as the same array, and data *)
(* saved by save_npz to a path ending in ".npz" is loaded back by load_npz *)
(* as a mapping: the mapping saved, or the array saved under the key       *)
(* "arr_0".                                                                *)
(***************************************************************************)
C12_ArrayAdapterContract ==
    Loaded({"load_npy", "load_npz"}) =>
        /\ io[1].res.raised = "none" => io[1].res.meta = EmptyMetadata
        /\ io[1].op = "load_npy" /\ ReadsBack({"save_npy"}) =>
              /\ io[1].res.raised = "none"
              /\ io[1].res.value = SavedData
        /\ io[1].op = "load_npz" /\ ReadsBack({"save_npz"}) =>
              /\ io[1].res.raised = "none"
              /\ io[1].res.value = IF SavedData.t = "dict" THEN SavedData
                                   ELSE Dict(<<<<"arr_0", SavedData.planes>>>>)

\* the claim as made: what is loaded back is the array that was saved
C12_SameArrayBack ==
    /\ Loaded({"load_npy"}) /\ ReadsBack({"save_npy"}) =>
          io[1].res.raised = "none" /\ io[1].res.meta = EmptyMetadata /\ io[1].res.value = SavedData
    /\ Loaded({"load_npz"}) /\ ReadsBack({"save_npz"}) =>
          io[1].res.raised = "none" /\ io[1].res.meta = EmptyMetadata /\ io[1].res.value = SavedData

\* an array saved by save_npz with a metadata argument (an empty one, given
\* as the third argument, which leaves the file uncompressed) is loaded
C12_Witness ==
    /\ Loaded({"load_npz"}) /\ ReadsBack({"save_npz"})
    /\ SavedData.t = "ndarray" /\ Len(SavedData.planes) = 2
    /\ ~store[io[1].path].compressed
    /\ io[1].res.raised = "none"

(***************************************************************************)
(* Vocabulary of the stacked properties: the file of index i < 10 of the   *)
(* family of the stem, and a family whose files of index 0..C-1 were all   *)
(* written by one stacked save of an array of C planes.                    *)
(***************************************************************************)
FamilyFile(i) ==
    TStem \o <<"_", "0", "0", "0">> \o
    << CHOOSE c \in Digits : \E k \in 1..10 :
          k - 1 = i /\ <<"0", "1", "2", "3", "4", "5", "6", "7", "8", "9">>[k] = c >> \o Npy
FamilySavedAsOne(channels) ==
    /\ \A i \in 0..(channels - 1) : FamilyFile(i) \in DOMAIN store
    /\ store[FamilyFile(0)].by.op = "stacked.save"
    /\ Len(store[FamilyFile(0)].by.data.planes) = channels
    /\ \A i \in 0..(channels - 1) : store[FamilyFile(i)].by = store[FamilyFile(0)].by
FamilyData == store[FamilyFile(0)].by.data

Called(op) == out # None /\ out[1].op = op
\* the values d holds under key k (none or one)
ValuesOf(d, k) == {d[i][2] : i \in {j \in 1..Len(d) : d[j][1] = k}}
KeySet(d) == {d[i][1] : i \in 1..Len(d)}
\* the entries the split configuration holds for (split, layer name)
EntriesFor(c, split, name) ==
    IF ~c.hasSplit THEN {}
    ELSE UNION {ValuesOf(m, name) : m \in ValuesOf(c.split, split)}
\* the override fields of (split, layer name): those of its entry, if any
OverrideFor(c, split, name) ==
    IF \E e \in EntriesFor(c, split, name) : ~e.null
    THEN (CHOOSE e \in EntriesFor(c, split, name) : ~e.null).d ELSE <<>>
NameOf(layer) == (CHOOSE v \in ValuesOf(layer, "name") : TRUE).s
\* the layer the last call was made on, as the configuration was loaded
BaseLayer == cfg0.layers[out[1].i].d
\* the files of the directory /r whose name starts with "1" and ends in ".e"
OnesInR == {f \in fs : Parent(f) = DirR /\ StartsWith(Name(f), <<"1">>)
                        /\ EndsWith(Name(f), <<".", "e">>)}

\* the split file assigns the split in the fold
Assigns(c, fold, split) ==
    /\ c.hasSplit /\ c.split_file # None
    /\ LET json == c.split_file[1]
           m == IF json.isList THEN json.list[fold + 1] ELSE json.map
       IN  split \in KeySet(m)
LayerNamed(c, name) ==
    (CHOOSE i \in 1..Len(c.layers) : NameOf(c.layers[i].d) = name)
\* the files of the layer's override-merged configuration whose name
\* relative to the root contains a substring the split file gives the
\* split in the fold
NarrowedFiles(c, x) ==
    LET base == c.layers[LayerNamed(c, x.layer)].d
        ovr == OverrideFor(c, x.split, x.layer)
        eff == [i \in 1..Len(base) |->
                   IF base[i][1] \in KeySet(ovr)
                   THEN <<base[i][1], CHOOSE v \in ValuesOf(ovr, base[i][1]) : TRUE>>
                   ELSE base[i]]
               \o SelectSeq(ovr, LAMBDA e : e[1] \notin KeySet(base))
        json == c.split_file[1]
        m == IF json.isList THEN json.list[x.fold + 1] ELSE json.map
        toks == UNION {Range(t) : t \in ValuesOf(m, x.split)}
        root == (CHOOSE v \in ValuesOf(eff, "path") : TRUE).s
    IN  {f \in Range(FileManagerOf(fs, eff, None, None, 0).files) :
            \E tok \in toks : Contains(tok, RelOf(f, root))}

(***************************************************************************)
(* C15.  apply_split_layer, for a layer whose (split, name) has an         *)
(* override mapping, returns a mapping that holds, for every field of the  *)
(* override, the override's value and, for every other field of the base   *)
(* layer, the base value, and no other field; with an override of the      *)
(* pattern alone, the file manager of the result finds the files of the    *)
(* base path and file_type that match the override pattern.                *)
(***************************************************************************)
C15_ShallowMerge ==
    Called("apply_split_layer") /\ out[1].ret # None =>
        LET eff == out[1].ret[1]
            ovr == OverrideFor(cfg0, out[1].split, NameOf(BaseLayer))
        IN  /\ KeySet(eff) = KeySet(BaseLayer) \cup KeySet(ovr)
            /\ \A k \in KeySet(ovr) : ValuesOf(eff, k) = ValuesOf(ovr, k)
            /\ \A k \in KeySet(BaseLayer) \ KeySet(ovr) : ValuesOf(eff, k) = ValuesOf(BaseLayer, k)
            /\ Len(eff) = Cardinality(KeySet(eff))
            /\ ovr = ValPattern /\ ValuesOf(BaseLayer, "file_stack") = {VBool(FALSE)} =>
                  Range(FileManagerOf(fs, eff, None, None, 0).files) = OnesInR

\* the 'val' override of the pattern alone: the result has the override
\* pattern, not the base one, and the file manager finds /r/10_0.e
C15_Witness ==
    /\ Called("apply_split_layer") /\ out[1].ret # None /\ out[1].split = "val"
    /\ OverrideFor(cfg0, "val", NameOf(BaseLayer)) = ValPattern
    /\ ValuesOf(BaseLayer, "pattern") = {VStr(<<"2", "*">>)}
    /\ ValuesOf(out[1].ret[1], "pattern") = {VStr(<<"1", "*">>)}
    /\ ValuesOf(out[1].ret[1], "path") = {VStr(<<"/", "r">>)}
    /\ FileManagerOf(fs, out[1].ret[1], None, None, 0).files
          = << DirR \o <<<<"1", "0", "_", "0", ".", "e">>>> >>

(***************************************************************************)
(* C16.  apply_split_layer, for a layer whose (split, name) has an entry   *)
(* in the split configuration, null or empty as it may be, returns a       *)
(* configuration, and for an entry without fields one equal to the base    *)
(* layer.                                                                  *)
(***************************************************************************)
C16_EmptyEntryIsBase ==
    Called("apply_split_layer") /\ out[1].raised = "none"
        /\ EntriesFor(cfg0, out[1].split, NameOf(BaseLayer)) # {} =>
            /\ out[1].ret # None
            /\ OverrideFor(cfg0, out[1].split, NameOf(BaseLayer)) = <<>> =>
                  out[1].ret = Some(BaseLayer)

(***************************************************************************)
(* C17.  No call made on the configuration changes it: the layers and the  *)
(* split overrides stay as they were loaded.                               *)
(***************************************************************************)
C17_BaseNeverMutated == cfg = cfg0

(***************************************************************************)
(* C18.  verify_config reports 'no explicit split' for (fold, split,       *)
(* layer) exactly when the split configuration holds no entry for (split,  *)
(* layer name) and the split file, if any, does not assign the split in    *)
(* the fold; in every other case it builds the file set.                   *)
(***************************************************************************)
C18_NoExplicitSplitIff ==
    Called("verify_config") /\ out[1].report.raised = "none" =>
        \A x \in out[1].report.splits :
            ~x.explicit <=> /\ EntriesFor(cfg, x.split, x.layer) = {}
                            /\ ~Assigns(cfg, x.fold, x.split)

(***************************************************************************)
(* C19.  With a split file, the file set verify_config builds for (fold,   *)
(* split, layer) holds exactly the files that the layer's effective        *)
(* configuration (the base with the override of the split merged in)       *)
(* finds and whose name relative to the root contains a substring the      *)
(* split file gives the split in the fold.                                 *)
(***************************************************************************)
C19_SplitFileNarrowsOverride ==
    Called("verify_config") /\ out[1].report.raised = "none" /\ cfg.hasSplit
        /\ cfg.split_file # None =>
            \A x \in out[1].report.splits :
                Assigns(cfg, x.fold, x.split) =>
                    x.explicit /\ Range(x.files) = NarrowedFiles(cfg, x)

(***************************************************************************)
(* C20.  verify_config, for a split file that is a single mapping M,       *)
(* verifies one fold, of index 0, and reports of every (split, layer) what *)
(* it reports for the split file that is the list of M alone.              *)
(***************************************************************************)
C20_MappingIsOneFold ==
    Called("verify_config") /\ cfg.hasSplit /\ cfg.split_file # None
        /\ ~cfg.split_file[1].isList =>
            LET listed == [cfg EXCEPT !.split_file = Some(JsonList(<<cfg.split_file[1].map>>))]
            IN  /\ out[1].report.raised = "none" => out[1].report.folds = 1
                /\ \A x \in out[1].report.splits : x.fold = 0
                /\ out[1].report.raised = "none" /\ Len(cfg.layers) > 0 =>
                      {<<x.split, x.layer>> : x \in out[1].report.splits}
                          = {<<_VALID_SPLITS[k], out[1].report.layers[i].name>> :
                                k \in 1..3,
                                i \in {j \in 1..Len(cfg.layers) : out[1].report.layers[j].valid}}
                /\ out[1].report = verify_config(listed, fs)

\* a split file that is a mapping, and a file set narrowed by it
C20_Witness ==
    /\ Called("verify_config") /\ cfg.hasSplit /\ cfg.split_file # None
    /\ ~cfg.split_file[1].isList
    /\ out[1].report.raised = "none"
    /\ \E x \in out[1].report.splits : x.explicit /\ x.split = "val" /\ Len(x.files) = 1
    /\ \E x \in out[1].report.splits : ~x.explicit

\* the number of folds of the split file of c: the length of a list, 1 for
\* a single mapping
FoldCount(c) ==
    IF c.split_file[1].isList THEN Len(c.split_file[1].list) ELSE 1

(***************************************************************************)
(* C21.  A resolution asked with a split file and a fold index outside     *)
(* 0..folds-1 ends in FoldIndexOutOfRange and gives no file set; asked     *)
(* without a fold index for a split file that is a single mapping it gives *)
(* what it gives for fold 0; and verify_config reports only folds of       *)
(* 0..folds-1, none of them with that error.                               *)
(***************************************************************************)
C21_FoldIndexInRange ==
    /\ Called("file_manager") /\ cfg.split_file # None =>
          /\ out[1].fold # None /\ out[1].fold[1] \notin 0..(FoldCount(cfg) - 1) =>
                /\ out[1].raised = "FoldIndexOutOfRange"
                /\ ~out[1].explicit /\ out[1].files = <<>>
          /\ out[1].fold # None /\ out[1].fold[1] \in 0..(FoldCount(cfg) - 1) =>
                out[1].raised # "FoldIndexOutOfRange"
          /\ out[1].fold = None /\ ~cfg.split_file[1].isList =>
                LET r == resolve_split(cfg, fs, cfg.layers[out[1].i].d, out[1].split, Some(0))
                IN  /\ out[1].raised = r.raised /\ out[1].raised # "FoldIndexOutOfRange"
                    /\ out[1].explicit = r.explicit /\ out[1].files = r.files
    /\ Called("verify_config") /\ cfg.hasSplit /\ cfg.split_file # None =>
          \A x \in out[1].report.splits :
              x.fold \in 0..(FoldCount(cfg) - 1) /\ x.raised # "FoldIndexOutOfRange"

\* fold 2 asked of a split file of two folds
C21_Witness ==
    /\ Called("file_manager") /\ cfg.split_file # None
    /\ cfg.split_file[1].isList /\ FoldCount(cfg) = 2
    /\ out[1].fold = Some(2) /\ out[1].raised = "FoldIndexOutOfRange"

\* the names of the layers of the configuration as it was loaded, in order
ConfiguredNames == [i \in 1..Len(cfg0.layers) |-> NameOf(cfg0.layers[i].d)]
\* the value the layer gives the field, or the default of an absent field
FieldOr(d, k, default) == IF ValuesOf(d, k) = {} THEN default ELSE CHOOSE v \in ValuesOf(d, k) : TRUE

(***************************************************************************)
(* C22.  layer_names() returns the names of the layers in the order of the *)
(* raw configuration; the i-th layer of the manager has the name, type,    *)
(* file_type, file_stack and backend of the i-th configured layer; and     *)
(* layer(n), for a name n of the configuration, returns the layer named n. *)
(***************************************************************************)
C22_LayerOrder ==
    /\ Called("layer_names") => out[1].names = ConfiguredNames
    /\ cm # None =>
          /\ Len(cm[1].layers) = Len(cfg0.layers)
          /\ \A i \in 1..Len(cfg0.layers) :
                LET l == cm[1].layers[i]
                    d == cfg0.layers[i].d
                IN  /\ l.name = ConfiguredNames[i]
                    /\ l.type = FieldOr(d, "type", VNone)
                    /\ l.file_type = FieldOr(d, "file_type", VNone)
                    /\ l.file_stack = FieldOr(d, "file_stack", VBool(FALSE))
                    /\ l.backend = FieldOr(d, "backend", VNone)
    /\ Called("layer") /\ out[1].name \in Range(ConfiguredNames) =>
          /\ out[1].raised = "none" /\ out[1].ret # None
          /\ out[1].ret[1].name = out[1].name
          /\ out[1].ret[1] \in Range(cm[1].layers)

\* the names of a configuration whose layers are not in sorted order
C22_Witness ==
    /\ Called("layer_names") /\ out[1].names = << <<"L">>, <<"I">> >>
    /\ cm[1].layers[1].file_stack = VBool(TRUE) /\ cm[1].layers[2].file_stack = VBool(FALSE)

(***************************************************************************)
(* C23.  The construction of the config manager from a configuration with  *)
(* no layer, or with a name that two layers share, ends in InvalidConfig,  *)
(* and no manager exists of such a configuration, at no time.              *)
(***************************************************************************)
C23_InvalidConfig ==
    LET invalid == Len(cfg0.layers) = 0 \/ ~NoDup(ConfiguredNames)
    IN  /\ invalid => cm = None
        /\ Called("ConfigManager") /\ invalid => out[1].raised = "InvalidConfig"
        /\ Called("ConfigManager") /\ out[1].raised # "none" => cm = None

\* three layers of which the first and the last share the name
C23_Witness ==
    /\ Called("ConfigManager") /\ out[1].raised = "InvalidConfig" /\ cm = None
    /\ Len(cfg0.layers) = 3 /\ ConfiguredNames[1] = ConfiguredNames[3]

\* what the claims require of a layer mapping: the four fields present,
\* name and file_type strings that are not empty, path a string, a known
\* image type with integer channels or a known label type with integer
\* classes, and a pattern that is absent, null or a string
IsText(d, k) == \A v \in ValuesOf(d, k) : v.t = "str"
IsNumber(d, k) == ValuesOf(d, k) # {} /\ \A v \in ValuesOf(d, k) : v.t = "int"
TypeIn(d, names) == \E v \in ValuesOf(d, "type") : v.t = "str" /\ v.s \in names
WellFormed(d) ==
    /\ {"name", "type", "path", "file_type"} \subseteq KeySet(d)
    /\ IsText(d, "name") /\ VStr(<<>>) \notin ValuesOf(d, "name")
    /\ IsText(d, "file_type") /\ VStr(<<>>) \notin ValuesOf(d, "file_type")
    /\ IsText(d, "path")
    /\ \/ TypeIn(d, _IMAGE_TYPES) /\ IsNumber(d, "channels")
       \/ TypeIn(d, _LABEL_TYPES) /\ IsNumber(d, "classes")
    /\ \A v \in ValuesOf(d, "pattern") : v.t \in {"None", "str"}

(***************************************************************************)
(* C24.  verify_layer reports a layer valid exactly when it returns no     *)
(* error, and exactly when the layer has the four required fields, a name  *)
(* and a file_type that are strings and not empty, a path that is a        *)
(* string, a known image type with integer channels or a known label type  *)
(* with integer classes, and a pattern that is absent, null or a string.   *)
(***************************************************************************)
C24_ValidIffWellFormed ==
    Called("verify_layer") =>
        /\ out[1].raised = "none" => (out[1].valid <=> out[1].errs = <<>>)
        /\ (out[1].raised = "none" /\ out[1].valid) <=> WellFormed(out[1].layer)

(***************************************************************************)
(* C27.  verify_layer raises for no layer mapping: it returns, and for a   *)
(* layer that is not well formed it returns False with at least one error. *)
(***************************************************************************)
C27_VerifyLayerTotal ==
    Called("verify_layer") =>
        /\ out[1].raised = "none"
        /\ ~WellFormed(out[1].layer) => ~out[1].valid /\ out[1].errs # <<>>

(***************************************************************************)
(* C28.  verify_layer reports the layers of the test configuration, of the *)
(* types 'image', 'semseg' and 'multilabel' that the config manager        *)
(* accepts, as valid.                                                      *)
(***************************************************************************)
C28_ManagerTypesValid ==
    Called("verify_layer") /\ out[1].layer \in {TImages, TLabels, TMLLabels} =>
        out[1].raised = "none" /\ out[1].valid

\* the collapsed stems of a located file: its directory and each stem of its name
StemsOf(f) ==
    { Parent(f) \o <<SubSeq(Name(f), 1, k)>> :
        k \in {n \in 0..Len(Name(f)) : IsStemOf(SubSeq(Name(f), 1, n), Name(f))} }

(***************************************************************************)
(* C25.  In the stacked file manager the include and exclude filters are   *)
(* applied after the stems are collapsed and are tested against the        *)
(* collapsed stem's path relative to the root: the list holds stems of     *)
(* located files only, and the stem of a located file is in it exactly     *)
(* when the stem's relative path contains an include substring (or there   *)
(* is no include list) and no exclude substring, whatever the names of the *)
(* per-channel files contain.                                              *)
(***************************************************************************)
C25_StackedFilterOnStems ==
    Stacked /\ Constructed =>
        /\ \A s \in Range(fm[1].files) : \E f \in Range(call[1].located) : s \in StemsOf(f)
        /\ \A f \in Range(call[1].located) : \A s \in StemsOf(f) :
              (s \in Range(fm[1].files)) <=>
                  /\ Included(RelOf(s, call[1].path), call[1].include_names)
                  /\ ~Excluded(RelOf(s, call[1].path), call[1].exclude_names)

\* a sample of two files is kept as a whole although the name of one of its
\* files contains an exclude substring that its stem does not
C25_Witness ==
    /\ Stacked /\ Constructed /\ call[1].exclude_names # None
    /\ \E f \in Range(call[1].located) : \E g \in Range(call[1].located) :
          /\ f # g /\ StemsOf(f) = StemsOf(g)
          /\ Excluded(RelOf(f, call[1].path), call[1].exclude_names)
          /\ ~Excluded(RelOf(g, call[1].path), call[1].exclude_names)
          /\ StemsOf(f) \subseteq Range(fm[1].files)

(***************************************************************************)
(* C26.  verify_config runs file discovery for no layer that verify_layer  *)
(* reported invalid: it reports no files of such a layer in the per-layer  *)
(* pass and builds no file set for it in any (fold, split) pass; and every *)
(* layer of the configuration has its verdict when the split passes start. *)
(***************************************************************************)
C26_NoDiscoveryForInvalid ==
    Called("verify_config") /\ out[1].report.raised = "none" =>
        /\ Len(out[1].report.layers) = Len(cfg.layers)
        /\ \A i \in 1..Len(cfg.layers) :
              ~out[1].report.layers[i].valid => out[1].report.layers[i].files = <<>>
        /\ \A x \in out[1].report.splits :
              x.explicit => out[1].report.layers[x.i].valid

(***************************************************************************)
(* C29.  For every file f in the list of a FileManager with an absolute    *)
(* root, path_from_name(name_from_path(f)) is f, for every file_type, a    *)
(* compound extension included; and name_from_path(f, include_ext=False)   *)
(* is the path of f relative to the root without its trailing extension.   *)
(***************************************************************************)
C29_NameRoundTrip ==
    Constructed /\ call[1].cls = "FileManager" /\ AbsoluteRoot(call[1].path) =>
        /\ Called("path_from_name") /\ out[1].include_ext /\ out[1].with_ext =>
              out[1].raised = "none" /\ out[1].path = out[1].of
        /\ Called("name_from_path") /\ ~out[1].include_ext =>
              /\ EndsWith(RelOf(out[1].file, call[1].path), call[1].file_type)
              /\ out[1].name \o call[1].file_type = RelOf(out[1].file, call[1].path)

====
